---- MODULE Spec2Model ----
(***************************************************************************)
(* solid-fsm: the trigger resolution and transition engine of              *)
(* StateMachine, with the configuration model built by StateConfiguration  *)
(* and TriggerConfiguration.                                               *)
(***************************************************************************)
EXTENDS Integers, Sequences, FiniteSets, TLC

\* ------------------------------------------------------------------------
\* Bounds
\* ------------------------------------------------------------------------
\* Total number of trigger() calls made in one behaviour.
MaxFired == 3

\* ------------------------------------------------------------------------
\* Identifiers
\* ------------------------------------------------------------------------
\* JavaScript's undefined, for a state identifier or a trigger that is absent.
Undefined == "undefined"

\* TestState: the state identifiers (a string enum).
States == {"State1", "State2", "State3", "Failed"}

\* A state identifier that JavaScript takes for false: the empty string (or 0,
\* the first member of a numeric enum).
FalsyState == ""

\* Every value the state type TState has.
StateIds == States \cup {FalsyState}

\* TestTrigger: the trigger identifiers (a string enum).
Triggers == {"Success", "Failure", "Reset"}

\* The guard predicates handed to on(): context => context.guard and
\* context => !context.guard.
Guards == {"guard", "notGuard"}

\* on(trigger) without a guard argument.
NoGuard == "none"

\* The pseudo owner that addresses the default configuration.
DefaultOwner == "default"

\* A guard predicate evaluated on the context.
EvalGuard(g, ctx) == IF g = "guard" THEN ctx.guard ELSE ~ctx.guard

\* JavaScript truthiness of a trigger or state identifier: undefined, 0 and
\* the empty string are falsy.
Truthy(v) == v # Undefined /\ v # ""

\* ------------------------------------------------------------------------
\* Configuration model: TriggerConfiguration
\* ------------------------------------------------------------------------
\* new TriggerConfiguration(stateConfiguration, guard)
NewTriggerConfiguration(guard) ==
  [guard |-> guard, targetStateConfiguration |-> Undefined,
   func |-> FALSE, isIgnored |-> FALSE]

\* throwOnFunc / throwOnIgnore / throwOnTarget: the message when the check
\* fires, "" otherwise.
throwOnFunc(tc, msg) == IF tc.func THEN msg ELSE ""

\* throwOnIgnore() that never throws.
throwOnIgnoreNever(tc, msg) == ""

\* throwOnIgnore(msg)
throwOnIgnore(tc, msg) == IF tc.isIgnored THEN msg ELSE ""

\* throwOnTarget(msg)
throwOnTarget(tc, msg) == IF tc.targetStateConfiguration # Undefined THEN msg ELSE ""

\* The first of two checks that throws.
FirstError(e1, e2) == IF e1 # "" THEN e1 ELSE e2

\* goesTo(state): [error, tc]
goesTo(tc, state) ==
  LET e == FirstError(
             throwOnFunc(tc, "A trigger cannot both have a target state and code that should be executed"),
             throwOnIgnore(tc, "A trigger cannot both have a target state and be ignored"))
  IN [error |-> e,
      tc |-> IF e # "" THEN tc ELSE [tc EXCEPT !.targetStateConfiguration = state]]

\* execute() without its checks: the action is stored whatever the
\* configuration holds.
executeUnchecked(tc) == [error |-> "", tc |-> [tc EXCEPT !.func = TRUE]]

\* execute(func): [error, tc]
execute(tc) ==
  LET e == FirstError(
             throwOnTarget(tc, "A trigger cannot both have a target state and code that should be executed"),
             throwOnIgnore(tc, "A trigger cannot both be ignored and have code that should be executed"))
  IN [error |-> e, tc |-> IF e # "" THEN tc ELSE [tc EXCEPT !.func = TRUE]]

\* ignore(): [error, tc]
ignore(tc) ==
  LET e == FirstError(
             throwOnFunc(tc, "A trigger cannot both be ignored and have code that should be executed"),
             throwOnTarget(tc, "A trigger cannot both be ignored and have a target state"))
  IN [error |-> e, tc |-> IF e # "" THEN tc ELSE [tc EXCEPT !.isIgnored = TRUE]]

\* ------------------------------------------------------------------------
\* Configuration model: StateConfiguration
\* ------------------------------------------------------------------------
\* new StateConfiguration(stateMachine, state). The unguarded map holds at most
\* one configuration per trigger (a sequence of length 0 or 1), the guarded
\* map a list per trigger (empty when the map has no entry).
NewStateConfiguration(state) ==
  [exists |-> TRUE, state |-> state, handler |-> FALSE,
   unguardedTriggerConfigurations |-> [t \in Triggers |-> <<>>],
   guardedTriggerConfigurations |-> [t \in Triggers |-> <<>>]]

\* A StateConfiguration reference that is undefined.
NoStateConfiguration == [NewStateConfiguration(Undefined) EXCEPT !.exists = FALSE]

\* handleUnguarded(trigger): [error, sc, idx]; idx 0 addresses the unguarded
\* configuration.
handleUnguarded(sc, trigger) ==
  IF sc.guardedTriggerConfigurations[trigger] # <<>>
  THEN [error |-> "is already used with a guard, cannot also be used unguarded",
        sc |-> sc, idx |-> 0]
  ELSE [error |-> "",
        sc |-> IF sc.unguardedTriggerConfigurations[trigger] # <<>> THEN sc
               ELSE [sc EXCEPT !.unguardedTriggerConfigurations[trigger] =
                                    <<NewTriggerConfiguration(NoGuard)>>],
        idx |-> 0]

\* handleGuarded() without the test for an unguarded entry.
handleGuardedUnchecked(sc, trigger, guard) ==
  [error |-> "",
   sc |-> [sc EXCEPT !.guardedTriggerConfigurations[trigger] =
                        Append(@, NewTriggerConfiguration(guard))],
   idx |-> Len(sc.guardedTriggerConfigurations[trigger]) + 1]

\* handleGuarded(trigger, guard): [error, sc, idx]; idx k > 0 addresses the
\* k-th guarded configuration of the trigger.
handleGuarded(sc, trigger, guard) ==
  IF sc.unguardedTriggerConfigurations[trigger] # <<>>
  THEN [error |-> "is already used without a guard, cannot also be used guarded",
        sc |-> sc, idx |-> 0]
  ELSE [error |-> "",
        sc |-> [sc EXCEPT !.guardedTriggerConfigurations[trigger] =
                             Append(@, NewTriggerConfiguration(guard))],
        idx |-> Len(sc.guardedTriggerConfigurations[trigger]) + 1]

\* on(trigger, guard?)
on(sc, trigger, guard) ==
  IF guard = NoGuard THEN handleUnguarded(sc, trigger)
  ELSE handleGuarded(sc, trigger, guard)

\* handledBy(handler)
handledBy(sc) == [sc EXCEPT !.handler = TRUE]

\* Array.from(map.keys()): the keys of a map as an array.
RECURSIVE keys(_)
keys(S) ==
  IF S = {} THEN <<>>
  ELSE LET t == CHOOSE x \in S : TRUE IN <<t>> \o keys(S \ {t})

\* Array.from(new Set(array).values()): the array without its repetitions.
RECURSIVE triggerSet(_)
triggerSet(array) ==
  IF array = <<>> THEN <<>>
  ELSE LET init == triggerSet(SubSeq(array, 1, Len(array) - 1))
           last == array[Len(array)]
       IN IF \E k \in DOMAIN init : init[k] = last THEN init ELSE Append(init, last)

\* getValidTriggers() that leaves out the triggers registered with a guard.
scGetValidTriggersUnguarded(sc) ==
  triggerSet(keys({t \in Triggers : sc.unguardedTriggerConfigurations[t] # <<>>}))

\* StateConfiguration.getValidTriggers(): the keys of the guarded map, then the
\* keys of the unguarded map, each once.
scGetValidTriggers(sc) ==
  triggerSet(keys({t \in Triggers : sc.guardedTriggerConfigurations[t] # <<>>})
               \o keys({t \in Triggers : sc.unguardedTriggerConfigurations[t] # <<>>}))

\* The trigger configuration addressed by idx.
TriggerConfigAt(sc, trigger, idx) ==
  IF idx = 0 THEN sc.unguardedTriggerConfigurations[trigger][1]
  ELSE sc.guardedTriggerConfigurations[trigger][idx]

\* The state configuration with the trigger configuration at idx replaced.
WithTriggerConfig(sc, trigger, idx, tc) ==
  IF idx = 0 THEN [sc EXCEPT !.unguardedTriggerConfigurations[trigger] = <<tc>>]
  ELSE [sc EXCEPT !.guardedTriggerConfigurations[trigger][idx] = tc]

\* ------------------------------------------------------------------------
\* Configuration model: the StateMachine's builder surface
\* ------------------------------------------------------------------------
\* The configuration fields of a StateMachine after its constructor.
NewStateMachine ==
  [stateConfigurationMap |-> [s \in StateIds |-> NoStateConfiguration],
   defaultState |-> NoStateConfiguration,
   initialState |-> Undefined,
   invalidTriggerListener |-> FALSE,
   transitionListener |-> FALSE]

\* state(state): get or create the state's configuration.
state(sm, s) ==
  IF sm.stateConfigurationMap[s].exists THEN sm
  ELSE [sm EXCEPT !.stateConfigurationMap[s] = NewStateConfiguration(s)]

\* default(): get or create the default configuration.
default(sm) ==
  IF sm.defaultState.exists THEN sm
  ELSE [sm EXCEPT !.defaultState = NewStateConfiguration(Undefined)]

\* withInvalidTriggerListener(listener) / withTransitionListener(listener)
withInvalidTriggerListener(sm) == [sm EXCEPT !.invalidTriggerListener = TRUE]
withTransitionListener(sm) == [sm EXCEPT !.transitionListener = TRUE]

\* isInitialState() on the configuration of state s.
isInitialState(sm, s) == [sm EXCEPT !.initialState = s]

\* The configuration an owner (a state identifier or the default) addresses.
ConfigOf(sm, owner) ==
  IF owner = DefaultOwner THEN sm.defaultState ELSE sm.stateConfigurationMap[owner]

\* The machine with the owner's configuration replaced.
WithConfig(sm, owner, sc) ==
  IF owner = DefaultOwner THEN [sm EXCEPT !.defaultState = sc]
  ELSE [sm EXCEPT !.stateConfigurationMap[owner] = sc]

\* sm.state(owner) or sm.default(), the head of a fluent chain.
Owner(sm, owner) == IF owner = DefaultOwner THEN default(sm) ELSE state(sm, owner)

\* One effect call (goesTo, execute, ignore; "none" leaves the trigger
\* configuration returned by on() without effect) on the trigger configuration
\* at idx: [error, sm]. goesTo resolves its target through sm.state(target).
ApplyEffect(sm, owner, trigger, idx, effect, target) ==
  LET tc == TriggerConfigAt(ConfigOf(sm, owner), trigger, idx)
      r == CASE effect = "goesTo" -> goesTo(tc, target)
             [] effect = "execute" -> execute(tc)
             [] effect = "ignore" -> ignore(tc)
             [] OTHER -> [error |-> "", tc |-> tc]
      sm1 == IF effect = "goesTo" /\ r.error = "" THEN state(sm, target) ELSE sm
  IN [error |-> r.error,
      sm |-> IF r.error # "" THEN sm
             ELSE WithConfig(sm1, owner,
                    WithTriggerConfig(ConfigOf(sm1, owner), trigger, idx, r.tc))]

\* One call of a configuration program applied to the machine: [error, sm].
ApplyCall(sm, c) ==
  LET sm1 == Owner(sm, c.owner)
  IN CASE c.op = "isInitialState" -> [error |-> "", sm |-> isInitialState(sm1, c.owner)]
       [] c.op = "handledBy" ->
            [error |-> "", sm |-> WithConfig(sm1, c.owner, handledBy(ConfigOf(sm1, c.owner)))]
       [] OTHER ->
            LET r == on(ConfigOf(sm1, c.owner), c.trigger, c.guard)
            IN IF r.error # "" THEN [error |-> r.error, sm |-> sm1]
               ELSE ApplyEffect(WithConfig(sm1, c.owner, r.sc), c.owner, c.trigger,
                                r.idx, c.effect, c.target)

\* A configuration program run call by call; the first error ends it.
RECURSIVE Configure(_, _)
Configure(sm, prog) ==
  IF prog = <<>> THEN [error |-> "", sm |-> sm]
  ELSE LET r == ApplyCall(sm, Head(prog))
       IN IF r.error # "" THEN r ELSE Configure(r.sm, Tail(prog))

\* Shorthands for the calls of a configuration program.
Initial(s) == [op |-> "isInitialState", owner |-> s, trigger |-> Undefined,
               guard |-> NoGuard, effect |-> "none", target |-> Undefined]
Handled(s) == [op |-> "handledBy", owner |-> s, trigger |-> Undefined,
               guard |-> NoGuard, effect |-> "none", target |-> Undefined]
OnGoesTo(s, t, g, tgt) == [op |-> "on", owner |-> s, trigger |-> t,
                           guard |-> g, effect |-> "goesTo", target |-> tgt]
OnExecute(s, t, g) == [op |-> "on", owner |-> s, trigger |-> t,
                       guard |-> g, effect |-> "execute", target |-> Undefined]
OnIgnore(s, t, g) == [op |-> "on", owner |-> s, trigger |-> t,
                      guard |-> g, effect |-> "ignore", target |-> Undefined]
OnNothing(s, t, g) == [op |-> "on", owner |-> s, trigger |-> t,
                       guard |-> g, effect |-> "none", target |-> Undefined]

\* The configuration of the test 'should flow through all states'; the state
\* Failed is only named in goesTo and Reset is configured nowhere.
FlowProgram ==
  << Initial("State1"), Handled("State1"),
     OnGoesTo("State1", "Failure", NoGuard, "Failed"),
     OnGoesTo("State1", "Success", "notGuard", "State2"),
     OnGoesTo("State1", "Success", "guard", "State3"),
     Handled("State2"),
     OnGoesTo("State2", "Failure", NoGuard, "Failed"),
     OnGoesTo("State2", "Success", NoGuard, "State3"),
     Handled("State3") >>

\* The configurations of the tests 'should use default triggers', 'should
\* prioritize state trigger over default trigger', 'should ignore trigger' and
\* 'should execute code on trigger' in one machine, with guarded entries on
\* the default configuration and two guarded entries sharing one guard.
DefaultProgram ==
  << OnGoesTo(DefaultOwner, "Reset", NoGuard, "State1"),
     OnGoesTo(DefaultOwner, "Success", "guard", "State3"),
     OnExecute(DefaultOwner, "Success", "notGuard"),
     Initial("State1"), Handled("State1"),
     OnGoesTo("State1", "Success", NoGuard, "State2"),
     OnIgnore("State1", "Reset", NoGuard),
     OnExecute("State1", "Failure", NoGuard),
     Handled("State2"),
     OnGoesTo("State2", "Success", "guard", "State3"),
     OnGoesTo("State2", "Success", "guard", "State1"),
     OnExecute("State2", "Reset", NoGuard),
     Handled("State3"),
     OnGoesTo("State3", "Failure", "notGuard", "State2"),
     OnNothing("State3", "Failure", "guard") >>

\* The configuration programs a machine is constructed with.
Programs == {FlowProgram, DefaultProgram}

\* The TriggerConfiguration reference on() returned: the configuration that
\* owns it, its trigger and its position (0 unguarded, k the k-th guarded).
Handle(owner, trigger, idx) == [owner |-> owner, trigger |-> trigger, idx |-> idx]

\* No TriggerConfiguration has been returned yet.
NoHandle == Handle(Undefined, Undefined, 0)

\* A configuration call as it was made, with the message of the error it threw
\* ("" when it returned) and the trigger and state that message names.
BuilderCall(c, message, trigger, s) ==
  [call |-> c, error |-> message, errorTrigger |-> trigger, errorState |-> s]

\* No configuration call has been made one by one.
NoCall == BuilderCall(Initial(Undefined), "", Undefined, Undefined)

\* ------------------------------------------------------------------------
\* State of one StateMachine instance
\* ------------------------------------------------------------------------
VARIABLES
  stateConfigurationMap,   \* Map<TState, StateConfiguration>
  defaultState,            \* the default StateConfiguration, if any
  initialState,            \* _initialState
  invalidTriggerListener,  \* whether an invalid-trigger listener is installed
  transitionListener,      \* whether a transition listener is installed
  currentState,            \* the state of the current StateConfiguration, or Undefined
  context,                 \* the context record: state, guard
  isProcessingList,        \* the active-loop flag
  triggerList,             \* the trigger queue
  loops,                   \* the processTriggerList() call chains in progress
  startPc,                 \* the position of the start() call
  startFailure,            \* the error start() was rejected with
  loopFailure,             \* the error a trigger() call chain was rejected with
  fired,                   \* number of trigger() calls made so far
  shifted,                 \* number of triggers taken from the queue so far
  lastShifted,             \* ordinal, in firing order, of the trigger taken last
  startCalls,              \* the callbacks start() has invoked, in order
  lastHandlerCall,         \* the handler callback invoked last: entering or exiting, and its state
  handle,                  \* the TriggerConfiguration the configuring code holds, returned by on()
  lastCall,                \* the configuration call made last and the error it threw
  built                    \* number of configuration calls made one by one so far

confVars == <<stateConfigurationMap, defaultState, initialState,
              invalidTriggerListener, transitionListener>>
queueVars == <<triggerList, fired, shifted, lastShifted>>
obsVars == <<startCalls, lastHandlerCall>>
buildVars == <<handle, lastCall, built>>
vars == <<stateConfigurationMap, defaultState, initialState, invalidTriggerListener,
          transitionListener, currentState, context, isProcessingList, triggerList,
          loops, startPc, startFailure, loopFailure, fired, shifted, lastShifted,
          startCalls, lastHandlerCall, handle, lastCall, built>>

\* The configuration fields as one record.
Machine ==
  [stateConfigurationMap |-> stateConfigurationMap, defaultState |-> defaultState,
   initialState |-> initialState, invalidTriggerListener |-> invalidTriggerListener,
   transitionListener |-> transitionListener]

\* ------------------------------------------------------------------------
\* Errors
\* ------------------------------------------------------------------------
NoError == [kind |-> "none", trigger |-> Undefined, state |-> Undefined]

\* The error message built from the configured initial state.
InvalidTriggerErrorInitial(trigger, cur) ==
  [kind |-> "TriggerNotValid", trigger |-> trigger, state |-> initialState]

\* `Trigger ${trigger} is not valid on state ${this.currentState._state}`
InvalidTriggerError(trigger, cur) ==
  [kind |-> "TriggerNotValid", trigger |-> trigger, state |-> cur]

\* `No handler for state ${stateConfiguration._state}`
NoHandlerError(s) == [kind |-> "NoHandler", trigger |-> Undefined, state |-> s]

\* The TypeError of reading _state of an undefined StateConfiguration.
TypeError == [kind |-> "TypeError", trigger |-> Undefined, state |-> Undefined]

\* 'Cannot determine initial state' / 'Initial state not properly configured'
NoInitialStateError ==
  [kind |-> "CannotDetermineInitialState", trigger |-> Undefined, state |-> Undefined]
NotConfiguredError(s) ==
  [kind |-> "InitialStateNotConfigured", trigger |-> Undefined, state |-> s]

\* The rejection of a handler, action or listener callback.
CallbackError(cb) == [kind |-> "CallbackFailed", trigger |-> Undefined, state |-> cb]

\* ------------------------------------------------------------------------
\* Trigger Resolver
\* ------------------------------------------------------------------------
\* A trigger configuration that was not found.
NoMatch == [found |-> FALSE, idx |-> 0, tc |-> NewTriggerConfiguration(NoGuard),
            evaluated |-> 0]

\* matchTrigger that keeps the last guarded configuration whose guard is true.
matchTriggerLast(sc, trigger, ctx) ==
  LET ung == IF sc.exists THEN sc.unguardedTriggerConfigurations[trigger] ELSE <<>>
      guardedTriggers ==
        IF sc.exists THEN sc.guardedTriggerConfigurations[trigger] ELSE <<>>
      hits == {k \in 1..Len(guardedTriggers) : EvalGuard(guardedTriggers[k].guard, ctx)}
      last == CHOOSE k \in hits : \A j \in hits : k >= j
  IN IF ung # <<>>
     THEN [found |-> TRUE, idx |-> 0, tc |-> ung[1], evaluated |-> 0]
     ELSE IF hits # {}
     THEN [found |-> TRUE, idx |-> last, tc |-> guardedTriggers[last],
           evaluated |-> Len(guardedTriggers)]
     ELSE [NoMatch EXCEPT !.evaluated = Len(guardedTriggers)]

\* matchTrigger(stateConfiguration, trigger): the unguarded configuration, else
\* the first guarded configuration whose guard is true on the context.
\* evaluated counts the guards Array.find evaluated.
matchTrigger(sc, trigger, ctx) ==
  LET ung == IF sc.exists THEN sc.unguardedTriggerConfigurations[trigger] ELSE <<>>
      guardedTriggers ==
        IF sc.exists THEN sc.guardedTriggerConfigurations[trigger] ELSE <<>>
      hits == {k \in 1..Len(guardedTriggers) : EvalGuard(guardedTriggers[k].guard, ctx)}
      first == CHOOSE k \in hits : \A j \in hits : k <= j
  IN IF ung # <<>>
     THEN [found |-> TRUE, idx |-> 0, tc |-> ung[1], evaluated |-> 0]
     ELSE IF hits # {}
     THEN [found |-> TRUE, idx |-> first, tc |-> guardedTriggers[first],
           evaluated |-> first]
     ELSE [NoMatch EXCEPT !.evaluated = Len(guardedTriggers)]

\* Resolution that asks the default configuration first.
resolveDefaultFirst(cur, trigger, ctx) ==
  LET own == matchTrigger(stateConfigurationMap[cur], trigger, ctx)
      def == matchTrigger(defaultState, trigger, ctx)
  IN IF def.found
     THEN [found |-> TRUE, owner |-> DefaultOwner, idx |-> def.idx, tc |-> def.tc,
           ownGuards |-> 0, defaultConsulted |-> TRUE,
           defaultGuards |-> def.evaluated]
     ELSE [found |-> own.found, owner |-> cur, idx |-> own.idx, tc |-> own.tc,
           ownGuards |-> own.evaluated, defaultConsulted |-> TRUE,
           defaultGuards |-> def.evaluated]

\* Resolution that matches both configurations before it chooses.
resolveEager(cur, trigger, ctx) ==
  LET own == matchTrigger(stateConfigurationMap[cur], trigger, ctx)
      def == matchTrigger(defaultState, trigger, ctx)
  IN IF own.found
     THEN [found |-> TRUE, owner |-> cur, idx |-> own.idx, tc |-> own.tc,
           ownGuards |-> own.evaluated, defaultConsulted |-> TRUE,
           defaultGuards |-> def.evaluated]
     ELSE [found |-> def.found, owner |-> DefaultOwner, idx |-> def.idx,
           tc |-> def.tc, ownGuards |-> own.evaluated,
           defaultConsulted |-> TRUE, defaultGuards |-> def.evaluated]

\* Resolution that asks the default configuration only when the current state
\* registers nothing at all for the trigger.
resolveUnregisteredOnly(cur, trigger, ctx) ==
  LET own == matchTrigger(stateConfigurationMap[cur], trigger, ctx)
      def == matchTrigger(defaultState, trigger, ctx)
      registered ==
        \/ stateConfigurationMap[cur].unguardedTriggerConfigurations[trigger] # <<>>
        \/ stateConfigurationMap[cur].guardedTriggerConfigurations[trigger] # <<>>
  IN IF own.found \/ registered
     THEN [found |-> own.found, owner |-> cur, idx |-> own.idx, tc |-> own.tc,
           ownGuards |-> own.evaluated, defaultConsulted |-> FALSE,
           defaultGuards |-> 0]
     ELSE [found |-> def.found, owner |-> DefaultOwner, idx |-> def.idx,
           tc |-> def.tc, ownGuards |-> own.evaluated,
           defaultConsulted |-> TRUE, defaultGuards |-> def.evaluated]

\* The resolution step of processTriggerList(): the current state's
\* configuration first, the default configuration only when it has no match.
\* owner names the configuration the match comes from; ownGuards and
\* defaultGuards count the guards evaluated on either configuration.
resolveTrigger(cur, trigger, ctx) ==
  LET own == matchTrigger(stateConfigurationMap[cur], trigger, ctx)
      def == matchTrigger(defaultState, trigger, ctx)
  IN IF own.found
     THEN [found |-> TRUE, owner |-> cur, idx |-> own.idx, tc |-> own.tc,
           ownGuards |-> own.evaluated, defaultConsulted |-> FALSE,
           defaultGuards |-> 0]
     ELSE [found |-> def.found, owner |-> DefaultOwner, idx |-> def.idx,
           tc |-> def.tc, ownGuards |-> own.evaluated,
           defaultConsulted |-> TRUE, defaultGuards |-> def.evaluated]

\* The resolution record of a call chain that has no trigger in hand.
NoResolution ==
  [found |-> FALSE, owner |-> Undefined, idx |-> 0,
   tc |-> NewTriggerConfiguration(NoGuard), ownGuards |-> 0,
   defaultConsulted |-> FALSE, defaultGuards |-> 0]

\* ------------------------------------------------------------------------
\* Transition Engine: queue and call chains
\* ------------------------------------------------------------------------
\* A handler callback as the handler sees it: entering() or exiting() of the
\* handler attached to a state, and its position n in the log of handler
\* callbacks.
HandlerCall(cb, s, n) == [cb |-> cb, state |-> s, n |-> n]

\* No handler callback has been invoked yet.
NoHandlerCall == HandlerCall("none", Undefined, 0)

\* The handler callback that is invoked next.
NextHandlerCall(cb, s) == HandlerCall(cb, s, lastHandlerCall.n + 1)

\* What Array.shift() returns on an empty queue.
NoEntry == [trigger |-> Undefined, id |-> 0, src |-> "none", during |-> 0,
            firedIn |-> Undefined]

\* push() as unshift(): the trigger is put at the head of the queue.
pushFront(list, entry) == <<entry>> \o list

\* triggerList.push(trigger)
push(list, entry) == Append(list, entry)

\* triggerList.shift(): the entry taken and the rest of the queue.
shift(list) ==
  IF list = <<>> THEN [entry |-> NoEntry, rest |-> <<>>]
  ELSE [entry |-> Head(list), rest |-> Tail(list)]

\* trigger() without the test of the active-loop flag.
neverProcessing(flag) == FALSE

\* The test of the active-loop flag in trigger().
alreadyProcessing(flag) == flag

\* A processTriggerList() call chain that is about to shift the queue. owner is
\* the caller of the trigger() call that started the chain and lid the firing
\* ordinal of that call.
NewLoop(owner, lid) ==
  [pc |-> "dequeue", owner |-> owner, lid |-> lid, trigger |-> Undefined, id |-> 0,
   src |-> "none", during |-> 0, firedIn |-> Undefined,
   stateAtDequeue |-> Undefined, res |-> NoResolution,
   exitingState |-> Undefined, enteringState |-> Undefined,
   cb |-> FALSE, calls |-> <<>>]

\* The call chain with a trigger it has resolved against the state the trigger
\* was fired in.
HoldingFiredIn(loop, entry, res) ==
  [NewLoop(loop.owner, loop.lid) EXCEPT
     !.trigger = entry.trigger, !.id = entry.id, !.src = entry.src,
     !.during = entry.during, !.firedIn = entry.firedIn,
     !.stateAtDequeue = currentState,
     !.res = IF entry.firedIn = Undefined THEN res
             ELSE resolveTrigger(entry.firedIn, entry.trigger, context)]

\* The call chain with the trigger it has just shifted and resolved.
Holding(loop, entry, res) ==
  [NewLoop(loop.owner, loop.lid) EXCEPT
     !.trigger = entry.trigger, !.id = entry.id, !.src = entry.src,
     !.during = entry.during, !.firedIn = entry.firedIn,
     !.stateAtDequeue = currentState, !.res = res]

\* The call chain that is in progress while trigger() is called: its lid, 0 if
\* there is none.
RunningLoop == IF loops = <<>> THEN 0 ELSE loops[Len(loops)].lid

\* A callback invocation as the callee sees it.
Call(cb, trigger, source, target) ==
  [cb |-> cb, trigger |-> trigger, source |-> source, target |-> target]

\* The sequence without its i-th element.
RemoveAt(seq, i) == SubSeq(seq, 1, i - 1) \o SubSeq(seq, i + 1, Len(seq))

\* The positions at which a call chain awaits a callback's promise.
AwaitPcs == {"exiting", "listener", "entering", "action", "invalid"}

\* Engine code is executing synchronously: nothing else can run before it
\* reaches its next await.
EngineRunning == \E i \in DOMAIN loops : loops[i].pc = "dequeue"

\* Some handler, action or listener callback has been invoked and has not
\* settled yet.
CallbackExecuting ==
  \/ startPc = "entering"
  \/ \E i \in DOMAIN loops : loops[i].pc \in AwaitPcs /\ loops[i].cb

\* The bookkeeping of one shift(): how many entries were taken and the firing
\* ordinal of the last one.
ShiftBook(sh) ==
  /\ shifted' = IF sh.entry = NoEntry THEN shifted ELSE shifted + 1
  /\ lastShifted' = IF sh.entry = NoEntry THEN lastShifted ELSE sh.entry.id
  /\ triggerList' = sh.rest
  /\ fired' = fired

\* enterState() without the handler check: entering() is invoked on whatever
\* the configuration holds.
enterStateUnchecked(target, skipEntering, ctx) ==
  IF target = Undefined
  THEN [currentState |-> Undefined, context |-> ctx, error |-> TypeError,
        entering |-> FALSE]
  ELSE [currentState |-> target, context |-> [ctx EXCEPT !.state = target],
        error |-> NoError, entering |-> ~skipEntering]

\* enterState(stateConfiguration, skipEntering): the pointer and context it
\* leaves, the error it throws and whether it invokes entering().
enterState(target, skipEntering, ctx) ==
  IF target = Undefined
  THEN [currentState |-> Undefined, context |-> ctx, error |-> TypeError,
        entering |-> FALSE]
  ELSE IF ~stateConfigurationMap[target].handler
  THEN [currentState |-> target, context |-> [ctx EXCEPT !.state = target],
        error |-> NoHandlerError(target), entering |-> FALSE]
  ELSE [currentState |-> target, context |-> [ctx EXCEPT !.state = target],
        error |-> NoError, entering |-> ~skipEntering]

\* A rejected call chain whose rejection goes to the caller that fired the
\* trigger in hand.
FailureToFirer(err, loop) ==
  [error |-> err, owner |-> loop.src, lid |-> loop.id, id |-> loop.id]

\* A rejected call chain: the error, the trigger() call whose promise rejects
\* (its caller and its firing ordinal) and the trigger that was in hand.
Failure(err, loop) ==
  [error |-> err, owner |-> loop.owner, lid |-> loop.lid, id |-> loop.id]
NoFailure == [error |-> NoError, owner |-> "none", lid |-> 0, id |-> 0]

\* ------------------------------------------------------------------------
\* Operations
\* ------------------------------------------------------------------------
\* trigger() that starts processTriggerList() without setting the
\* active-loop flag.
TriggerForgetsFlag(t, src) ==
  /\ ~EngineRunning
  /\ fired < MaxFired
  /\ src = "callback" => CallbackExecuting
  /\ fired' = fired + 1
  /\ triggerList' = push(triggerList,
                          [trigger |-> t, id |-> fired + 1, src |-> src,
                           during |-> IF alreadyProcessing(isProcessingList)
                                      THEN RunningLoop ELSE fired + 1,
                           firedIn |-> currentState])
  /\ IF alreadyProcessing(isProcessingList)
     THEN UNCHANGED loops
     ELSE loops' = Append(loops, NewLoop(src, fired + 1))
  /\ UNCHANGED <<confVars, buildVars, obsVars, currentState, context, isProcessingList, startPc,
                 startFailure, loopFailure, shifted, lastShifted>>

\* trigger(trigger), called by an external caller or from inside a callback
\* that is executing.
Trigger(t, src) ==
  /\ ~EngineRunning
  /\ fired < MaxFired
  /\ src = "callback" => CallbackExecuting
  /\ fired' = fired + 1
  /\ triggerList' = push(triggerList,
                          [trigger |-> t, id |-> fired + 1, src |-> src,
                           during |-> IF alreadyProcessing(isProcessingList)
                                      THEN RunningLoop ELSE fired + 1,
                           firedIn |-> currentState])
  /\ IF alreadyProcessing(isProcessingList)
     THEN UNCHANGED <<isProcessingList, loops>>
     ELSE /\ isProcessingList' = TRUE
          /\ loops' = Append(loops, NewLoop(src, fired + 1))
  /\ UNCHANGED <<confVars, buildVars, obsVars, currentState, context, startPc, startFailure,
                 loopFailure, shifted, lastShifted>>

\* start() up to its first await.
Start ==
  LET hasContextState == Truthy(context.state)
      skipEntering == hasContextState /\ context.state # initialState
      init == IF hasContextState THEN context.state ELSE initialState
      r == enterState(init, skipEntering, context)
  IN /\ startPc = "notStarted"
     /\ ~EngineRunning
     /\ IF init = Undefined
        THEN /\ startPc' = "failed"
             /\ startFailure' = NoInitialStateError
             /\ UNCHANGED <<currentState, context, obsVars>>
        ELSE IF ~stateConfigurationMap[init].exists
        THEN /\ startPc' = "failed"
             /\ startFailure' = NotConfiguredError(init)
             /\ UNCHANGED <<currentState, context, obsVars>>
        ELSE /\ currentState' = r.currentState
             /\ context' = r.context
             /\ startFailure' = r.error
             /\ startPc' = IF r.error # NoError THEN "failed"
                           ELSE IF r.entering THEN "entering" ELSE "done"
             /\ startCalls' = IF r.entering
                              THEN <<Call("entering", Undefined, Undefined, init)>>
                              ELSE <<>>
             /\ lastHandlerCall' = IF r.entering THEN NextHandlerCall("entering", init)
                                   ELSE lastHandlerCall
     /\ UNCHANGED <<confVars, buildVars, isProcessingList, queueVars, loops, loopFailure>>

\* The entry callback invoked by start() returns.
StartEntered ==
  /\ startPc = "entering"
  /\ ~EngineRunning
  /\ startPc' = "done"
  /\ UNCHANGED <<confVars, buildVars, obsVars, currentState, context, isProcessingList, queueVars,
                 loops, startFailure, loopFailure>>

\* The entry callback invoked by start() fails.
StartEnteringFails ==
  /\ startPc = "entering"
  /\ ~EngineRunning
  /\ startPc' = "failed"
  /\ startFailure' = CallbackError("entering")
  /\ UNCHANGED <<confVars, buildVars, obsVars, currentState, context, isProcessingList, queueVars,
                 loops, loopFailure>>

\* A callback that is executing writes the guard field of the context.
SetGuard(b) ==
  /\ ~EngineRunning
  /\ CallbackExecuting
  /\ context.guard # b
  /\ context' = [context EXCEPT !.guard = b]
  /\ UNCHANGED <<confVars, buildVars, obsVars, currentState, isProcessingList, queueVars, loops,
                 startPc, startFailure, loopFailure>>

\* ------------------------------------------------------------------------
\* processTriggerList(): one action per path from shift() to the next await
\* ------------------------------------------------------------------------
\* The queue gave no trigger (or a falsy one), or there is no current state:
\* the flag is cleared and the call chain returns.
ProcessEnd(i) ==
  LET sh == shift(triggerList)
  IN /\ loops[i].pc = "dequeue"
     /\ ~Truthy(sh.entry.trigger) \/ currentState = Undefined
     /\ ShiftBook(sh)
     /\ isProcessingList' = FALSE
     /\ loops' = RemoveAt(loops, i)
     /\ UNCHANGED <<confVars, buildVars, obsVars, currentState, context, startPc, startFailure, loopFailure>>

\* The shifted trigger and its resolution, when processing goes on.
Resolved(i, sh) ==
  /\ loops[i].pc = "dequeue"
  /\ Truthy(sh.entry.trigger)
  /\ currentState # Undefined

\* No configuration matches and no invalid-trigger listener is installed: throw.
ProcessInvalidThrow(i) ==
  LET sh == shift(triggerList)
      res == resolveTrigger(currentState, sh.entry.trigger, context)
  IN /\ Resolved(i, sh)
     /\ ~res.found
     /\ ~invalidTriggerListener
     /\ ShiftBook(sh)
     /\ loopFailure' = Failure(InvalidTriggerError(sh.entry.trigger, currentState),
                               Holding(loops[i], sh.entry, res))
     /\ loops' = RemoveAt(loops, i)
     /\ UNCHANGED <<confVars, buildVars, obsVars, currentState, context, isProcessingList, startPc,
                    startFailure>>

\* No configuration matches: the invalid-trigger listener is invoked.
ProcessInvalidListener(i) ==
  LET sh == shift(triggerList)
      res == resolveTrigger(currentState, sh.entry.trigger, context)
  IN /\ Resolved(i, sh)
     /\ ~res.found
     /\ invalidTriggerListener
     /\ ShiftBook(sh)
     /\ loops' = [loops EXCEPT ![i] =
          [Holding(@, sh.entry, res) EXCEPT
             !.pc = "invalid", !.cb = TRUE,
             !.calls = <<Call("invalid", sh.entry.trigger, currentState, Undefined)>>]]
     /\ UNCHANGED <<confVars, buildVars, obsVars, currentState, context, isProcessingList, startPc,
                    startFailure, loopFailure>>

\* An ignored trigger after which processTriggerList() returns instead of
\* calling itself again.
ProcessIgnoreReturns(i) ==
  LET sh == shift(triggerList)
      res == resolveTrigger(currentState, sh.entry.trigger, context)
  IN /\ Resolved(i, sh)
     /\ res.found
     /\ res.tc.isIgnored
     /\ ShiftBook(sh)
     /\ loops' = RemoveAt(loops, i)
     /\ UNCHANGED <<confVars, buildVars, obsVars, currentState, context, isProcessingList, startPc,
                    startFailure, loopFailure>>

\* The matched configuration is ignored: processTriggerList() is called again
\* at once. The call chain keeps the ignored trigger in hand until its next
\* shift().
ProcessIgnore(i) ==
  LET sh == shift(triggerList)
      res == resolveTrigger(currentState, sh.entry.trigger, context)
  IN /\ Resolved(i, sh)
     /\ res.found
     /\ res.tc.isIgnored
     /\ ShiftBook(sh)
     /\ loops' = [loops EXCEPT ![i] = Holding(@, sh.entry, res)]
     /\ UNCHANGED <<confVars, buildVars, obsVars, currentState, context, isProcessingList, startPc,
                    startFailure, loopFailure>>

\* An action after which the transition branch runs as well: exiting() is
\* invoked right after the action.
ProcessExecuteExits(i) ==
  LET sh == shift(triggerList)
      res == resolveTrigger(currentState, sh.entry.trigger, context)
  IN /\ Resolved(i, sh)
     /\ res.found
     /\ ~res.tc.isIgnored
     /\ res.tc.func
     /\ ShiftBook(sh)
     /\ loops' = [loops EXCEPT ![i] =
          [Holding(@, sh.entry, res) EXCEPT
             !.pc = "action", !.cb = TRUE,
             !.calls = <<Call("action", sh.entry.trigger, res.owner, Undefined),
                         Call("exiting", Undefined, currentState, Undefined)>>]]
     /\ lastHandlerCall' = NextHandlerCall("exiting", currentState)
     /\ UNCHANGED <<confVars, buildVars, startCalls, currentState, context, isProcessingList, startPc,
                    startFailure, loopFailure>>

\* The matched configuration has code to execute: the action is invoked.
ProcessExecute(i) ==
  LET sh == shift(triggerList)
      res == resolveTrigger(currentState, sh.entry.trigger, context)
  IN /\ Resolved(i, sh)
     /\ res.found
     /\ ~res.tc.isIgnored
     /\ res.tc.func
     /\ ShiftBook(sh)
     /\ loops' = [loops EXCEPT ![i] =
          [Holding(@, sh.entry, res) EXCEPT
             !.pc = "action", !.cb = TRUE,
             !.calls = <<Call("action", sh.entry.trigger, res.owner, Undefined)>>]]
     /\ UNCHANGED <<confVars, buildVars, obsVars, currentState, context, isProcessingList, startPc,
                    startFailure, loopFailure>>

\* A transition that moves the current-state pointer before exiting() runs.
ProcessTransitionEarly(i) ==
  LET sh == shift(triggerList)
      res == resolveTrigger(currentState, sh.entry.trigger, context)
      hasHandler == stateConfigurationMap[currentState].handler
  IN /\ Resolved(i, sh)
     /\ res.found
     /\ ~res.tc.isIgnored
     /\ ~res.tc.func
     /\ ShiftBook(sh)
     /\ currentState' = res.tc.targetStateConfiguration
     /\ loops' = [loops EXCEPT ![i] =
          [Holding(@, sh.entry, res) EXCEPT
             !.pc = "exiting", !.cb = hasHandler,
             !.exitingState = currentState,
             !.enteringState = res.tc.targetStateConfiguration,
             !.calls = IF hasHandler
                       THEN <<Call("exiting", Undefined, currentState, Undefined)>>
                       ELSE <<>>]]
     /\ lastHandlerCall' = IF hasHandler THEN NextHandlerCall("exiting", currentState)
                           ELSE lastHandlerCall
     /\ UNCHANGED <<confVars, buildVars, startCalls, context, isProcessingList, startPc,
                    startFailure, loopFailure>>

\* A transition that exits the configuration the match comes from: for a match
\* of the default configuration, the default configuration's handler.
ProcessTransitionOwnerExits(i) ==
  LET sh == shift(triggerList)
      res == resolveTrigger(currentState, sh.entry.trigger, context)
      hasHandler == ConfigOf(Machine, res.owner).handler
  IN /\ Resolved(i, sh)
     /\ res.found
     /\ ~res.tc.isIgnored
     /\ ~res.tc.func
     /\ ShiftBook(sh)
     /\ loops' = [loops EXCEPT ![i] =
          [Holding(@, sh.entry, res) EXCEPT
             !.pc = "exiting", !.cb = hasHandler,
             !.exitingState = currentState,
             !.enteringState = res.tc.targetStateConfiguration,
             !.calls = IF hasHandler
                       THEN <<Call("exiting", Undefined, res.owner, Undefined)>>
                       ELSE <<>>]]
     /\ lastHandlerCall' = IF hasHandler THEN NextHandlerCall("exiting", res.owner)
                           ELSE lastHandlerCall
     /\ UNCHANGED <<confVars, buildVars, startCalls, currentState, context,
                    isProcessingList, startPc, startFailure, loopFailure>>

\* The matched configuration is a transition: the current handler's exiting()
\* is invoked, if the current state has a handler.
ProcessTransition(i) ==
  LET sh == shift(triggerList)
      res == resolveTrigger(currentState, sh.entry.trigger, context)
      hasHandler == stateConfigurationMap[currentState].handler
  IN /\ Resolved(i, sh)
     /\ res.found
     /\ ~res.tc.isIgnored
     /\ ~res.tc.func
     /\ ShiftBook(sh)
     /\ loops' = [loops EXCEPT ![i] =
          [Holding(@, sh.entry, res) EXCEPT
             !.pc = "exiting", !.cb = hasHandler,
             !.exitingState = currentState,
             !.enteringState = res.tc.targetStateConfiguration,
             !.calls = IF hasHandler
                       THEN <<Call("exiting", Undefined, currentState, Undefined)>>
                       ELSE <<>>]]
     /\ lastHandlerCall' = IF hasHandler THEN NextHandlerCall("exiting", currentState)
                           ELSE lastHandlerCall
     /\ UNCHANGED <<confVars, buildVars, startCalls, currentState, context, isProcessingList, startPc,
                    startFailure, loopFailure>>

\* exiting() has returned: the transition listener is invoked, if installed.
AfterExiting(i) ==
  /\ ~EngineRunning
  /\ loops[i].pc = "exiting"
  /\ loops' = [loops EXCEPT ![i] =
       [@ EXCEPT !.pc = "listener", !.cb = transitionListener,
                 !.calls = IF transitionListener
                           THEN Append(@, Call("listener", loops[i].trigger,
                                               loops[i].exitingState,
                                               loops[i].enteringState))
                           ELSE @]]
  /\ UNCHANGED <<confVars, buildVars, obsVars, currentState, context, isProcessingList, queueVars,
                 startPc, startFailure, loopFailure>>

\* A transition that enters its target state without invoking entering().
AfterListenerSkipsEntering(i) ==
  LET r == enterState(loops[i].enteringState, TRUE, context)
  IN /\ ~EngineRunning
     /\ loops[i].pc = "listener"
     /\ currentState' = r.currentState
     /\ context' = r.context
     /\ IF r.error # NoError
        THEN /\ loopFailure' = Failure(r.error, loops[i])
             /\ loops' = RemoveAt(loops, i)
        ELSE /\ loops' = [loops EXCEPT ![i] = [@ EXCEPT !.pc = "entering", !.cb = FALSE]]
             /\ UNCHANGED loopFailure
     /\ UNCHANGED <<confVars, buildVars, obsVars, isProcessingList, queueVars, startPc,
                    startFailure>>

\* The transition listener has returned: enterState(target).
AfterListener(i) ==
  LET r == enterState(loops[i].enteringState, FALSE, context)
  IN /\ ~EngineRunning
     /\ loops[i].pc = "listener"
     /\ currentState' = r.currentState
     /\ context' = r.context
     /\ IF r.error # NoError
        THEN /\ loopFailure' = Failure(r.error, loops[i])
             /\ loops' = RemoveAt(loops, i)
             /\ UNCHANGED lastHandlerCall
        ELSE /\ loops' = [loops EXCEPT ![i] =
                  [@ EXCEPT !.pc = "entering", !.cb = r.entering,
                            !.calls = Append(@, Call("entering", Undefined, Undefined,
                                                     loops[i].enteringState))]]
             /\ lastHandlerCall' = NextHandlerCall("entering", loops[i].enteringState)
             /\ UNCHANGED loopFailure
     /\ UNCHANGED <<confVars, buildVars, startCalls, isProcessingList, queueVars, startPc,
                    startFailure>>

\* processTriggerList() that returns the invalid-trigger listener's promise
\* instead of going on with the queue.
AfterCallbackReturnsListener(i) ==
  /\ ~EngineRunning
  /\ loops[i].pc \in {"entering", "action", "invalid"}
  /\ loops' = IF loops[i].pc = "invalid" THEN RemoveAt(loops, i)
              ELSE [loops EXCEPT ![i] = NewLoop(@.owner, @.lid)]
  /\ UNCHANGED <<confVars, buildVars, obsVars, currentState, context, isProcessingList, queueVars,
                 startPc, startFailure, loopFailure>>

\* entering(), the action or the invalid-trigger listener has returned:
\* processTriggerList() is called again.
AfterCallback(i) ==
  /\ ~EngineRunning
  /\ loops[i].pc \in {"entering", "action", "invalid"}
  /\ loops' = [loops EXCEPT ![i] = NewLoop(@.owner, @.lid)]
  /\ UNCHANGED <<confVars, buildVars, obsVars, currentState, context, isProcessingList, queueVars,
                 startPc, startFailure, loopFailure>>

\* A failing callback after which the engine puts the current state and
\* context.state back to the state the transition left.
CallbackFailsRollsBack(i) ==
  /\ ~EngineRunning
  /\ loops[i].pc \in AwaitPcs
  /\ loops[i].cb
  /\ loopFailure' = Failure(CallbackError(loops[i].pc), loops[i])
  /\ loops' = RemoveAt(loops, i)
  /\ currentState' = IF loops[i].pc = "entering" THEN loops[i].exitingState
                     ELSE currentState
  /\ context' = IF loops[i].pc = "entering"
                THEN [context EXCEPT !.state = loops[i].exitingState] ELSE context
  /\ UNCHANGED <<confVars, buildVars, obsVars, isProcessingList, queueVars, startPc, startFailure>>

\* A failing exit callback or transition listener after which the target state
\* is current all the same.
CallbackFailsCommits(i) ==
  /\ ~EngineRunning
  /\ loops[i].pc \in AwaitPcs
  /\ loops[i].cb
  /\ loopFailure' = Failure(CallbackError(loops[i].pc), loops[i])
  /\ loops' = RemoveAt(loops, i)
  /\ currentState' = IF loops[i].pc \in {"exiting", "listener"}
                     THEN loops[i].enteringState ELSE currentState
  /\ context' = IF loops[i].pc \in {"exiting", "listener"}
                THEN [context EXCEPT !.state = loops[i].enteringState] ELSE context
  /\ UNCHANGED <<confVars, buildVars, obsVars, isProcessingList, queueVars, startPc,
                 startFailure>>

\* The callback a call chain awaits fails: the rejection propagates out of
\* processTriggerList() and trigger().
CallbackFails(i) ==
  /\ ~EngineRunning
  /\ loops[i].pc \in AwaitPcs
  /\ loops[i].cb
  /\ loopFailure' = Failure(CallbackError(loops[i].pc), loops[i])
  /\ loops' = RemoveAt(loops, i)
  /\ UNCHANGED <<confVars, buildVars, obsVars, currentState, context, isProcessingList, queueVars,
                 startPc, startFailure>>

\* ------------------------------------------------------------------------
\* Specification
\* ------------------------------------------------------------------------
\* The machine a test constructs: a configuration program has run, the two
\* listeners are installed or not, the context is fresh.
Init ==
  /\ \E prog \in Programs, il \in BOOLEAN, tl \in BOOLEAN :
       LET sm0 == Configure(NewStateMachine, prog).sm
           sm1 == IF il THEN withInvalidTriggerListener(sm0) ELSE sm0
           sm == IF tl THEN withTransitionListener(sm1) ELSE sm1
       IN /\ stateConfigurationMap = sm.stateConfigurationMap
          /\ defaultState = sm.defaultState
          /\ initialState = sm.initialState
          /\ invalidTriggerListener = sm.invalidTriggerListener
          /\ transitionListener = sm.transitionListener
  /\ currentState = Undefined
  /\ context \in [state : {Undefined}, guard : BOOLEAN]
  /\ isProcessingList = FALSE
  /\ triggerList = <<>>
  /\ loops = <<>>
  /\ startPc = "notStarted"
  /\ startFailure = NoError
  /\ loopFailure = NoFailure
  /\ fired = 0
  /\ shifted = 0
  /\ lastShifted = 0
  /\ startCalls = <<>>
  /\ lastHandlerCall = NoHandlerCall
  /\ handle = NoHandle
  /\ lastCall = NoCall
  /\ built = 0

Next ==
  \/ \E t \in Triggers, src \in {"external", "callback"} : Trigger(t, src)
  \/ Start
  \/ StartEntered
  \/ StartEnteringFails
  \/ \E b \in BOOLEAN : SetGuard(b)
  \/ \E i \in DOMAIN loops : ProcessEnd(i)
  \/ \E i \in DOMAIN loops : ProcessInvalidThrow(i)
  \/ \E i \in DOMAIN loops : ProcessInvalidListener(i)
  \/ \E i \in DOMAIN loops : ProcessIgnore(i)
  \/ \E i \in DOMAIN loops : ProcessExecute(i)
  \/ \E i \in DOMAIN loops : ProcessTransition(i)
  \/ \E i \in DOMAIN loops : AfterExiting(i)
  \/ \E i \in DOMAIN loops : AfterListener(i)
  \/ \E i \in DOMAIN loops : AfterCallback(i)
  \/ \E i \in DOMAIN loops : CallbackFails(i)

Spec == Init /\ [][Next]_vars

\* A fresh machine constructed on the context a previous run has left: the
\* context carries the state that run recorded, one of the states of the
\* configuration model.
ResumeInit ==
  /\ \E prog \in Programs, il \in BOOLEAN, tl \in BOOLEAN :
       LET sm0 == Configure(NewStateMachine, prog).sm
           sm1 == IF il THEN withInvalidTriggerListener(sm0) ELSE sm0
           sm == IF tl THEN withTransitionListener(sm1) ELSE sm1
       IN /\ stateConfigurationMap = sm.stateConfigurationMap
          /\ defaultState = sm.defaultState
          /\ initialState = sm.initialState
          /\ invalidTriggerListener = sm.invalidTriggerListener
          /\ transitionListener = sm.transitionListener
  /\ currentState = Undefined
  /\ context \in [state : {s \in States : stateConfigurationMap[s].exists},
                  guard : BOOLEAN]
  /\ isProcessingList = FALSE
  /\ triggerList = <<>>
  /\ loops = <<>>
  /\ startPc = "notStarted"
  /\ startFailure = NoError
  /\ loopFailure = NoFailure
  /\ fired = 0
  /\ shifted = 0
  /\ lastShifted = 0
  /\ startCalls = <<>>
  /\ lastHandlerCall = NoHandlerCall
  /\ handle = NoHandle
  /\ lastCall = NoCall
  /\ built = 0

ResumeSpec == ResumeInit /\ [][Next]_vars

\* A trigger identifier that JavaScript takes for false: the empty string (or
\* 0, the first member of a numeric enum).
FalsyTrigger == ""

\* The operations when the trigger type has a falsy member.
NextAnyTrigger ==
  \/ Next
  \/ \E src \in {"external", "callback"} : Trigger(FalsyTrigger, src)

SpecAnyTrigger == Init /\ [][NextAnyTrigger]_vars

\* ------------------------------------------------------------------------
\* Properties
\* ------------------------------------------------------------------------
\* A call chain has a trigger in hand: it has shifted and resolved it.
InHand(l) == l.id # 0

\* Call chain i takes a trigger from the queue in this step.
ShiftStep(i) ==
  /\ i \in DOMAIN loops
  /\ loops[i].pc = "dequeue"
  /\ shifted' = shifted + 1

\* C1: triggers are dequeued and resolved in the order trigger() was invoked,
\* whoever invoked it: the k-th trigger taken from the queue is the k-th
\* trigger fired, the pending triggers are the ones fired after it, in firing
\* order from the head to the tail, and the trigger a call chain has in hand is
\* the one taken last.
C1_FifoOrder ==
  /\ lastShifted = shifted
  /\ Len(triggerList) = fired - shifted
  /\ \A k \in DOMAIN triggerList : triggerList[k].id = shifted + k
  /\ \A i \in DOMAIN loops : InHand(loops[i]) => loops[i].id = shifted

\* C1 witness: a trigger fired from inside a callback is being processed after
\* the triggers fired before it, while a later one is pending.
C1_Witness ==
  \E i \in DOMAIN loops :
    /\ loops[i].pc \in AwaitPcs
    /\ loops[i].src = "callback"
    /\ loops[i].id = 2
    /\ triggerList # <<>>
    /\ Head(triggerList).src = "external"

\* A trigger() call is made in this step.
TriggerCall == fired' = fired + 1

ExpectedCalls(l) ==
  (IF stateConfigurationMap[l.exitingState].handler
   THEN <<Call("exiting", Undefined, l.exitingState, Undefined)>> ELSE <<>>)
  \o (IF transitionListener
      THEN <<Call("listener", l.trigger, l.exitingState, l.enteringState)>> ELSE <<>>)
  \o <<Call("entering", Undefined, Undefined, l.enteringState)>>

HasMatch(sc, t, ctx) ==
  /\ sc.exists
  /\ \/ sc.unguardedTriggerConfigurations[t] # <<>>
     \/ \E k \in DOMAIN sc.guardedTriggerConfigurations[t] :
          EvalGuard(sc.guardedTriggerConfigurations[t][k].guard, ctx)

\* The effect of the configuration a call chain resolved is the one carried
\* out: nothing for an ignored one, the action, or a transition to its target.
Applied(l) ==
  /\ l.res.tc.isIgnored => l.pc = "dequeue" /\ l.calls = <<>>
  /\ (~l.res.tc.isIgnored /\ l.res.tc.func) => l.pc = "action"
  /\ (~l.res.tc.isIgnored /\ ~l.res.tc.func) =>
       /\ l.pc = "exiting"
       /\ l.enteringState = l.res.tc.targetStateConfiguration

\* C4: when the current state has a configuration that applies to the dequeued
\* trigger, that configuration is the one resolved and carried out, whatever
\* the default configuration holds; when it has none and the default
\* configuration has one, the default's is resolved and carried out.
C4_DefaultFallback ==
  [][\A i \in DOMAIN loops :
       (ShiftStep(i) /\ currentState # Undefined /\ i \in DOMAIN loops') =>
         LET t == Head(triggerList).trigger
             own == HasMatch(stateConfigurationMap[currentState], t, context)
             def == HasMatch(defaultState, t, context)
             l == loops'[i]
         IN /\ own => l.res.found /\ l.res.owner = currentState
            /\ (~own /\ def) => l.res.found /\ l.res.owner = DefaultOwner
            /\ (own \/ def) =>
                 /\ l.trigger = t
                 /\ l.res.tc = TriggerConfigAt(ConfigOf(Machine, l.res.owner), t, l.res.idx)
                 /\ Applied(l)]_vars

\* C4 witness: a transition of the default configuration is carried out in a
\* state other than the initial one.
C4_Witness ==
  \E i \in DOMAIN loops :
    /\ loops[i].pc = "entering"
    /\ loops[i].res.owner = DefaultOwner
    /\ loops[i].exitingState = "State3"
    /\ currentState = "State1"

\* The guarded configurations of the current state for trigger t, and the
\* positions of those whose guard is true on the context.
OwnGuarded(t) == stateConfigurationMap[currentState].guardedTriggerConfigurations[t]
TrueGuards(t) == {k \in DOMAIN OwnGuarded(t) : EvalGuard(OwnGuarded(t)[k].guard, context)}

\* C5: when the current state has no unguarded configuration for the dequeued
\* trigger and at least one of its guarded configurations has a true guard,
\* the configuration resolved is the earliest registered of those with a true
\* guard, the guards registered before it were evaluated and no later one, no
\* error is raised, and if it is a transition the target is that
\* configuration's; once the target's entry callback runs, the current state
\* is that target.
C5_FirstTrueGuard ==
  /\ [][\A i \in DOMAIN loops :
          LET t == Head(triggerList).trigger
          IN (/\ ShiftStep(i)
              /\ currentState # Undefined
              /\ stateConfigurationMap[currentState].unguardedTriggerConfigurations[t] = <<>>
              /\ TrueGuards(t) # {}) =>
               /\ i \in DOMAIN loops'
               /\ loopFailure' = loopFailure
               /\ LET l == loops'[i]
                  IN /\ l.res.found
                     /\ l.res.owner = currentState
                     /\ l.res.idx \in TrueGuards(t)
                     /\ \A j \in TrueGuards(t) : l.res.idx <= j
                     /\ l.res.ownGuards = l.res.idx
                     /\ l.res.tc = OwnGuarded(t)[l.res.idx]
                     /\ Applied(l)]_vars
  /\ [](\A i \in DOMAIN loops :
          LET l == loops[i]
          IN (l.pc = "entering" /\ l.res.idx > 0 /\ l.res.owner = l.stateAtDequeue) =>
               currentState =
                 stateConfigurationMap[l.stateAtDequeue]
                   .guardedTriggerConfigurations[l.trigger][l.res.idx]
                   .targetStateConfiguration)

\* C5 witness: two guards of State2 for Success are true and the machine has
\* moved to the target of the first, State3, not to that of the second.
C5_Witness ==
  \E i \in DOMAIN loops :
    /\ loops[i].pc = "entering"
    /\ loops[i].stateAtDequeue = "State2"
    /\ loops[i].res.owner = "State2"
    /\ loops[i].res.idx = 1
    /\ Len(stateConfigurationMap["State2"].guardedTriggerConfigurations["Success"]) = 2
    /\ currentState = "State3"

\* C6: when the current state has an unguarded configuration for the dequeued
\* trigger, that configuration is the one resolved and carried out, no guard
\* is evaluated, on the state or on the default configuration, and the default
\* configuration is not consulted.
C6_UnguardedFirst ==
  [][\A i \in DOMAIN loops :
       LET t == Head(triggerList).trigger
       IN (/\ ShiftStep(i)
           /\ currentState # Undefined
           /\ stateConfigurationMap[currentState].unguardedTriggerConfigurations[t] # <<>>) =>
            /\ i \in DOMAIN loops'
            /\ LET l == loops'[i]
               IN /\ l.res.found
                  /\ l.res.owner = currentState
                  /\ l.res.idx = 0
                  /\ l.res.tc =
                       stateConfigurationMap[currentState].unguardedTriggerConfigurations[t][1]
                  /\ l.res.ownGuards = 0
                  /\ ~l.res.defaultConsulted
                  /\ l.res.defaultGuards = 0
                  /\ Applied(l)]_vars

\* C6 witness: State1's unguarded Success is carried out although the default
\* configuration holds guarded configurations for Success.
C6_Witness ==
  \E i \in DOMAIN loops :
    /\ loops[i].pc = "exiting"
    /\ loops[i].trigger = "Success"
    /\ loops[i].res.owner = "State1"
    /\ loops[i].res.idx = 0
    /\ defaultState.exists
    /\ defaultState.guardedTriggerConfigurations["Success"] # <<>>

\* C7: when the dequeued trigger has no applicable configuration on the
\* current state or on the default configuration and no invalid-trigger
\* listener is installed, the call chain ends with the error 'Trigger t is not
\* valid on state s', t being the dequeued trigger and s the state current at
\* that moment, and the current state and context.state are unchanged.
C7_InvalidTriggerError ==
  [][\A i \in DOMAIN loops :
       LET t == Head(triggerList).trigger
       IN (/\ ShiftStep(i)
           /\ currentState # Undefined
           /\ ~HasMatch(stateConfigurationMap[currentState], t, context)
           /\ ~HasMatch(defaultState, t, context)
           /\ ~invalidTriggerListener) =>
            /\ loopFailure'.error =
                 [kind |-> "TriggerNotValid", trigger |-> t, state |-> currentState]
            /\ loopFailure'.id = Head(triggerList).id
            /\ Len(loops') = Len(loops) - 1
            /\ currentState' = currentState
            /\ context' = context]_vars

\* C7 witness: an unresolved trigger has failed in a state other than the
\* initial one.
C7_Witness ==
  /\ loopFailure.error.kind = "TriggerNotValid"
  /\ loopFailure.error.state = currentState
  /\ currentState # initialState
  /\ loops = <<>>

\* The trigger that the trigger() call of this step has put in the queue.
FiredNow == triggerList'[Len(triggerList')].trigger

\* C8: after start() has completed and a call chain has failed with 'Trigger X
\* is not valid on state S', a trigger() call with a trigger that has an
\* applicable configuration on S is processed: the call starts a
\* processTriggerList() call chain for it.
C8_RecoversAfterInvalidTrigger ==
  [][(/\ TriggerCall
      /\ startPc = "done"
      /\ loopFailure.error.kind = "TriggerNotValid"
      /\ loops = <<>>
      /\ currentState = loopFailure.error.state
      /\ HasMatch(stateConfigurationMap[currentState], FiredNow, context))
       => loops' # <<>>]_vars

\* C9: at the moment the error 'Trigger X is not valid on state S' is raised,
\* the trigger queue is emptied.
C9_QueueDiscardedOnFailure ==
  [][(/\ loopFailure.error.kind # "TriggerNotValid"
      /\ loopFailure'.error.kind = "TriggerNotValid")
       => triggerList' = <<>>]_vars

\* C10: with an invalid-trigger listener installed, a dequeued trigger that has
\* no applicable configuration makes the engine invoke the listener once with
\* (current state, trigger), raise no error and leave the current state, the
\* context and the flag as they are; when the listener returns the call chain
\* goes back to the queue with the flag still set and nothing else changed; no
\* 'Trigger is not valid' error is ever raised; and the flag is never left set
\* without a call chain in progress unless some failure was raised.
C10_InvalidTriggerListener ==
  /\ [][\A i \in DOMAIN loops :
          LET t == Head(triggerList).trigger
          IN (/\ ShiftStep(i)
              /\ currentState # Undefined
              /\ ~HasMatch(stateConfigurationMap[currentState], t, context)
              /\ ~HasMatch(defaultState, t, context)
              /\ invalidTriggerListener) =>
               /\ i \in DOMAIN loops'
               /\ loops'[i].pc = "invalid"
               /\ loops'[i].calls = <<Call("invalid", t, currentState, Undefined)>>
               /\ loopFailure' = loopFailure
               /\ isProcessingList'
               /\ UNCHANGED <<currentState, context>>]_vars
  /\ [][\A i \in DOMAIN loops :
          (loops[i].pc = "invalid" /\ loops' # loops) =>
             \/ /\ loopFailure'.error = CallbackError("invalid")
                /\ loopFailure # loopFailure'
             \/ /\ i \in DOMAIN loops'
                /\ loops'[i].pc = "dequeue"
                /\ ~InHand(loops'[i])
                /\ isProcessingList'
                /\ UNCHANGED <<currentState, context, triggerList, loopFailure>>]_vars
  /\ [](/\ \A i \in DOMAIN loops :
             loops[i].pc = "invalid" =>
               /\ currentState = loops[i].stateAtDequeue
               /\ Len(loops[i].calls) = 1
        /\ invalidTriggerListener => loopFailure.error.kind # "TriggerNotValid"
        /\ (isProcessingList /\ loops = <<>>) => loopFailure # NoFailure)

\* C10 witness: the listener has been invoked for an unresolved trigger while
\* another trigger is queued behind it.
C10_Witness ==
  \E i \in DOMAIN loops :
    /\ loops[i].pc = "invalid"
    /\ loops[i].calls = <<Call("invalid", loops[i].trigger, currentState, Undefined)>>
    /\ currentState = "State2"
    /\ triggerList # <<>>

\* start() returns or reaches its entry callback in this step.
StartCall == startPc = "notStarted" /\ startPc' # "notStarted"

\* C11: start() on a fresh machine whose context carries the state a previous
\* run recorded makes that state current and context.state, and does not
\* invoke its entry callback, whichever state of the configuration model it
\* is, the state marked initial included; the trigger a call chain then takes
\* from the queue is resolved against the state current at that moment.
C11_ResumeSkipsEntering ==
  /\ [][(StartCall /\ Truthy(context.state)) =>
          /\ currentState' = context.state
          /\ context'.state = context.state
          /\ startPc' # "entering"]_vars
  /\ [][\A i \in DOMAIN loops :
          (ShiftStep(i) /\ i \in DOMAIN loops' /\ InHand(loops'[i])) =>
            /\ loops'[i].stateAtDequeue = currentState
            /\ loops'[i].res = resolveTrigger(currentState, Head(triggerList).trigger,
                                              context)]_vars

\* The resolution of the trigger at the head of the queue against the current
\* state, when there is a trigger and a current state.
HeadResolution ==
  IF triggerList # <<>> /\ currentState # Undefined /\ Truthy(Head(triggerList).trigger)
  THEN resolveTrigger(currentState, Head(triggerList).trigger, context)
  ELSE NoResolution

\* C12: taking a trigger that resolves to an ignored configuration invokes no
\* callback, raises nothing, leaves the current state, context.state and the
\* flag as they are, and the call chain is at its next shift() at once.
C12_IgnoreDoesNothing ==
  /\ [][\A i \in DOMAIN loops :
          (ShiftStep(i) /\ HeadResolution.found /\ HeadResolution.tc.isIgnored) =>
            /\ Len(loops') = Len(loops)
            /\ loops'[i].calls = <<>>
            /\ ~loops'[i].cb
            /\ loops'[i].pc = "dequeue"
            /\ loops'[i].id = Head(triggerList).id
            /\ triggerList' = Tail(triggerList)
            /\ UNCHANGED <<currentState, context, isProcessingList, loopFailure,
                           startPc, startFailure>>]_vars
  /\ [](\A i \in DOMAIN loops :
          (InHand(loops[i]) /\ loops[i].res.found /\ loops[i].res.tc.isIgnored) =>
            loops[i].pc = "dequeue" /\ loops[i].calls = <<>>)

\* C12 witness: a call chain has just ignored a trigger, in the state in which
\* it took it, and the next queued trigger is waiting.
C12_Witness ==
  \E i \in DOMAIN loops :
    /\ InHand(loops[i])
    /\ loops[i].res.tc.isIgnored
    /\ loops[i].pc = "dequeue"
    /\ currentState = loops[i].stateAtDequeue
    /\ triggerList # <<>>

\* C13: taking a trigger that resolves to a configuration with an action
\* invokes the action, once, and nothing else; the current state and
\* context.state stay as they are while the action runs and when it has
\* returned, and the call chain is then at its next shift().
C13_ExecuteKeepsState ==
  /\ [][\A i \in DOMAIN loops :
          (/\ ShiftStep(i)
           /\ HeadResolution.found
           /\ ~HeadResolution.tc.isIgnored
           /\ HeadResolution.tc.func) =>
            /\ Len(loops') = Len(loops)
            /\ loops'[i].pc = "action"
            /\ loops'[i].calls = <<Call("action", Head(triggerList).trigger,
                                        HeadResolution.owner, Undefined)>>
            /\ UNCHANGED <<currentState, context, isProcessingList, loopFailure>>]_vars
  /\ [](\A i \in DOMAIN loops :
          loops[i].pc = "action" =>
            /\ Len(loops[i].calls) = 1
            /\ currentState = loops[i].stateAtDequeue
            /\ context.state = currentState)
  /\ [][\A i \in DOMAIN loops :
          (loops[i].pc = "action" /\ loopFailure' = loopFailure /\ loops' # loops) =>
            /\ Len(loops') = Len(loops)
            /\ loops'[i].pc = "dequeue"
            /\ loops'[i].calls = <<>>
            /\ UNCHANGED <<currentState, context, triggerList, isProcessingList>>]_vars

\* C13 witness: the action of a state's own configuration is running, in the
\* state in which the trigger was taken, while a later trigger is queued.
C13_Witness ==
  \E i \in DOMAIN loops :
    /\ loops[i].pc = "action"
    /\ loops[i].res.owner = currentState
    /\ loops[i].calls = <<Call("action", loops[i].trigger, currentState, Undefined)>>
    /\ triggerList # <<>>

\* The queue entry that the trigger() call of this step has appended.
FiredEntry == triggerList'[Len(triggerList')]

\* The callbacks that are executing are entry callbacks only: the one start()
\* has invoked, or the one a transition has invoked.
OnlyEntryExecuting ==
  /\ CallbackExecuting
  /\ \A i \in DOMAIN loops :
       (loops[i].pc \in AwaitPcs /\ loops[i].cb) => loops[i].pc = "entering"

\* C14: a trigger() call made from inside an executing entry callback, the one
\* start() invokes included, only appends the trigger to the queue: it starts
\* no call chain, takes nothing from the queue and changes neither the current
\* state nor the context, so that nothing is done for the trigger before the
\* entry callback has returned.
C14_EntryCallbackOnlyEnqueues ==
  [][(TriggerCall /\ FiredEntry.src = "callback" /\ OnlyEntryExecuting) =>
       /\ triggerList' = Append(triggerList, FiredEntry)
       /\ UNCHANGED <<loops, shifted, currentState, context>>]_vars

\* Call chain i is between the invocation of the first callback for the
\* trigger it has in hand and the return of the last one.
MidEffect(i) == loops[i].pc \in AwaitPcs

\* C15: the effects of two triggers never interleave. At most one call chain
\* is between the callbacks of a trigger; until it is through with them no
\* trigger is taken from the queue, every callback invoked is one of this
\* chain for the trigger it has in hand, and a trigger() call made in the
\* meantime, by an external caller or by a callback, changes only the queue.
C15_NoInterleaving ==
  /\ [](\A i, j \in DOMAIN loops : (MidEffect(i) /\ MidEffect(j)) => i = j)
  /\ [][\A i \in DOMAIN loops : MidEffect(i) =>
          /\ shifted' = shifted
          /\ \A j \in DOMAIN loops' :
               loops'[j].calls # <<>> =>
                 /\ j = i
                 /\ loops'[j].id = loops[i].id
                 /\ SubSeq(loops'[j].calls, 1, Len(loops[i].calls)) = loops[i].calls
          /\ TriggerCall => UNCHANGED <<loops, currentState, context, shifted>>]_vars

\* C15 witness: while the exit callback of a transition is suspended an
\* external caller has called trigger(), and the trigger waits in the queue.
C15_Witness ==
  \E i \in DOMAIN loops :
    /\ loops[i].pc = "exiting"
    /\ loops[i].cb
    /\ triggerList # <<>>
    /\ Head(triggerList).src = "external"
    /\ Head(triggerList).during = loops[i].lid

\* Nothing is in progress: no call chain exists and no callback is executing.
Quiescent == loops = <<>> /\ ~CallbackExecuting

\* No callback has failed so far.
NoCallbackFailed ==
  /\ loopFailure.error.kind # "CallbackFailed"
  /\ startFailure.kind # "CallbackFailed"

\* C16: if no callback fails and every callback returns, every trigger passed
\* to trigger() on a started engine is eventually taken from the queue and
\* resolved. Stated for the trigger() calls made once start() has completed,
\* no callback has failed and all callbacks have returned: such a call leaves
\* a call chain in progress that will take its trigger; otherwise the trigger
\* sits in the queue with nothing running and is never taken.
C16_EveryTriggerProcessed ==
  [][(TriggerCall /\ startPc = "done" /\ Quiescent /\ NoCallbackFailed) =>
       loops' # <<>>]_vars

\* A call chain returns without failure in this step: the trigger() call that
\* started it returns normally.
ChainReturns == Len(loops') < Len(loops) /\ loopFailure' = loopFailure

\* C17: when the trigger() call that started a call chain returns without
\* failure, the queue is empty and the active-loop flag is clear; and a
\* trigger() call made with the flag clear starts a fresh call chain whose
\* first shift() takes the trigger of that call.
C17_DrainEndsEmpty ==
  /\ [][ChainReturns => (triggerList' = <<>> /\ ~isProcessingList')]_vars
  /\ [][(TriggerCall /\ ~isProcessingList) =>
          /\ Len(loops') = Len(loops) + 1
          /\ loops'[Len(loops')].pc = "dequeue"
          /\ isProcessingList'
          /\ Head(triggerList') = FiredEntry]_vars

\* C18: the active-loop flag is set whenever a call chain is about to take a
\* trigger from the queue; the flag is cleared only in a step whose shift()
\* found the queue empty; and whenever the flag is clear and no call chain is
\* in progress the queue is empty.
C18_FlagGuardsQueue ==
  /\ [](\A i \in DOMAIN loops : loops[i].pc = "dequeue" => isProcessingList)
  /\ [][(isProcessingList /\ ~isProcessingList') =>
          (triggerList = <<>> /\ triggerList' = <<>>)]_vars
  /\ []((~isProcessingList /\ loops = <<>>) => triggerList = <<>>)

\* The callback that call chain i awaits fails in this step.
FailsIn(i) ==
  /\ loops[i].pc \in AwaitPcs
  /\ loops[i].cb
  /\ loopFailure' # loopFailure
  /\ loopFailure'.error.kind = "CallbackFailed"

\* C19: when the entry callback of the target state, an action or a listener
\* fails while a trigger is processed, the error of that callback is what the
\* caller owning the call chain receives, the call chain ends there without
\* taking another trigger and without invoking another callback, and the
\* current state and context.state stay as they are: after a failed entry
\* callback both are the target state.
C19_CallbackFailurePropagates ==
  [][\A i \in DOMAIN loops : FailsIn(i) =>
       /\ loopFailure'.error = CallbackError(loops[i].pc)
       /\ loopFailure'.owner = loops[i].owner
       /\ loopFailure'.id = loops[i].id
       /\ loops' = RemoveAt(loops, i)
       /\ UNCHANGED <<currentState, context, triggerList, shifted, isProcessingList>>
       /\ context'.state = currentState'
       /\ loops[i].pc = "entering" =>
            /\ currentState' = loops[i].enteringState
            /\ currentState' = loops[i].res.tc.targetStateConfiguration
       /\ loops[i].pc \in {"action", "invalid", "exiting", "listener"} =>
            currentState' = loops[i].stateAtDequeue]_vars

\* C19 witness: the entry callback of a transition to another state has
\* failed; the target is the current state and context.state, and a trigger
\* queued behind the failed one is still in the queue.
C19_Witness ==
  /\ loopFailure.error = CallbackError("entering")
  /\ loops = <<>>
  /\ currentState # initialState
  /\ context.state = currentState
  /\ triggerList # <<>>

\* The kinds of the errors that report a fault of the configuration.
ConfigurationErrorKinds ==
  {"NoHandler", "CannotDetermineInitialState", "InitialStateNotConfigured"}

\* C20: configuration errors are raised while the configuration is built or by
\* start(): once start() has completed successfully, no call chain started by
\* trigger() fails with a configuration error such as 'No handler for state S'.
C20_NoConfigurationErrorAfterStart ==
  [][(startPc = "done" /\ loopFailure' # loopFailure) =>
       loopFailure'.error.kind \notin ConfigurationErrorKinds]_vars

\* ------------------------------------------------------------------------
\* start() on any configuration and any recorded state
\* ------------------------------------------------------------------------
\* The configuration of the test 'should handle state without handler': the
\* initial state has a transition and no handler.
NoHandlerProgram ==
  << Initial("State1"), OnGoesTo("State1", "Success", NoGuard, "State2") >>

\* The configuration of the test 'should throw on no initial state'.
NoInitialProgram ==
  << Handled("State1"), OnGoesTo("State1", "Success", NoGuard, "State3") >>

\* The configuration programs start() is exercised with.
StartPrograms == Programs \cup {NoHandlerProgram, NoInitialProgram}

\* A machine constructed by any of the programs on a context that is fresh or
\* carries any state identifier, configured or not.
StartInit ==
  /\ \E prog \in StartPrograms, il \in BOOLEAN, tl \in BOOLEAN :
       LET sm0 == Configure(NewStateMachine, prog).sm
           sm1 == IF il THEN withInvalidTriggerListener(sm0) ELSE sm0
           sm == IF tl THEN withTransitionListener(sm1) ELSE sm1
       IN /\ stateConfigurationMap = sm.stateConfigurationMap
          /\ defaultState = sm.defaultState
          /\ initialState = sm.initialState
          /\ invalidTriggerListener = sm.invalidTriggerListener
          /\ transitionListener = sm.transitionListener
  /\ currentState = Undefined
  /\ context \in [state : States \cup {Undefined}, guard : BOOLEAN]
  /\ isProcessingList = FALSE
  /\ triggerList = <<>>
  /\ loops = <<>>
  /\ startPc = "notStarted"
  /\ startFailure = NoError
  /\ loopFailure = NoFailure
  /\ fired = 0
  /\ shifted = 0
  /\ lastShifted = 0
  /\ startCalls = <<>>
  /\ lastHandlerCall = NoHandlerCall
  /\ handle = NoHandle
  /\ lastCall = NoCall
  /\ built = 0

StartSpec == StartInit /\ [][Next]_vars

\* The state identifier start() resolves: the state the context carries, else
\* the state marked initial.
ResolvedState == IF context.state # Undefined THEN context.state ELSE initialState

\* C21: start() fails with a configuration error and invokes no entry callback
\* when the context carries no state and no state was marked initial ('Cannot
\* determine initial state'), when the resolved state identifier has no State
\* Configuration ('Initial state not properly configured'), and when its State
\* Configuration has no handler ('No handler for state S').
C21_StartConfigurationErrors ==
  [][StartCall =>
       /\ ResolvedState = Undefined =>
            startPc' = "failed" /\ startFailure' = NoInitialStateError
       /\ (ResolvedState # Undefined /\ ~stateConfigurationMap[ResolvedState].exists) =>
            startPc' = "failed" /\ startFailure' = NotConfiguredError(ResolvedState)
       /\ (/\ ResolvedState # Undefined
           /\ stateConfigurationMap[ResolvedState].exists
           /\ ~stateConfigurationMap[ResolvedState].handler) =>
            startPc' = "failed" /\ startFailure' = NoHandlerError(ResolvedState)]_vars

\* C21 witness: start() was rejected with 'No handler for state State1' on the
\* machine whose initial state has no handler.
C21_Witness ==
  /\ startPc = "failed"
  /\ startFailure = NoHandlerError("State1")
  /\ initialState = "State1"
  /\ ~stateConfigurationMap["State1"].handler

\* ------------------------------------------------------------------------
\* Machines whose state type has a falsy member
\* ------------------------------------------------------------------------
\* A machine that moves between State1, its initial state, and the falsy state,
\* both with handlers.
FalsyStateProgram ==
  << Initial("State1"), Handled("State1"),
     OnGoesTo("State1", "Success", NoGuard, FalsyState),
     Handled(FalsyState),
     OnGoesTo(FalsyState, "Success", NoGuard, "State1"),
     OnExecute(FalsyState, "Failure", NoGuard) >>

\* A machine constructed on a context that is fresh or carries a state an
\* earlier run recorded, the falsy state included.
AnyStateInit ==
  /\ \E prog \in Programs \cup {FalsyStateProgram}, il \in BOOLEAN, tl \in BOOLEAN :
       LET sm0 == Configure(NewStateMachine, prog).sm
           sm1 == IF il THEN withInvalidTriggerListener(sm0) ELSE sm0
           sm == IF tl THEN withTransitionListener(sm1) ELSE sm1
       IN /\ stateConfigurationMap = sm.stateConfigurationMap
          /\ defaultState = sm.defaultState
          /\ initialState = sm.initialState
          /\ invalidTriggerListener = sm.invalidTriggerListener
          /\ transitionListener = sm.transitionListener
  /\ currentState = Undefined
  /\ context \in [state : {Undefined} \cup
                            {s \in StateIds : stateConfigurationMap[s].handler},
                  guard : BOOLEAN]
  /\ isProcessingList = FALSE
  /\ triggerList = <<>>
  /\ loops = <<>>
  /\ startPc = "notStarted"
  /\ startFailure = NoError
  /\ loopFailure = NoFailure
  /\ fired = 0
  /\ shifted = 0
  /\ lastShifted = 0
  /\ startCalls = <<>>
  /\ lastHandlerCall = NoHandlerCall
  /\ handle = NoHandle
  /\ lastCall = NoCall
  /\ built = 0

AnyStateSpec == AnyStateInit /\ [][Next]_vars

\* C22: start() makes current the state stored in the context if the context
\* carries one, and otherwise the state marked initial: whatever the state
\* identifier, the state the context carries takes precedence over the
\* configured initial state (whenever that state is configured with a handler,
\* so that start() can succeed).
C22_ContextStateTakesPrecedence ==
  [][(/\ StartCall
      /\ ResolvedState # Undefined
      /\ stateConfigurationMap[ResolvedState].handler) =>
       /\ startPc' # "failed"
       /\ currentState' = ResolvedState
       /\ context'.state = ResolvedState]_vars

\* The positions in a sequence of callback invocations at which the transition
\* listener is notified.
ListenerCalls(calls) == {k \in DOMAIN calls : calls[k].cb = "listener"}

\* C23: start() notifies the transition listener, if one is installed, exactly
\* once, with an undefined source state and the state being entered.
C23_StartNotifiesListener ==
  [][(StartCall /\ transitionListener /\ startPc' # "failed") =>
       /\ Cardinality(ListenerCalls(startCalls')) = 1
       /\ \A k \in ListenerCalls(startCalls') :
            /\ startCalls'[k].source = Undefined
            /\ startCalls'[k].target = currentState']_vars

\* ------------------------------------------------------------------------
\* The fluent configuration API, one call at a time
\* ------------------------------------------------------------------------
\* The longest sequence of configuration calls made one by one.
MaxCalls == 5

\* The configurations, triggers and target states the calls are made with.
BuildOwners == {"State1", DefaultOwner}
BuildTriggers == {"Success", "Failure"}
BuildGuards == {NoGuard, "guard"}
BuildTargets == {"State2", "State3"}

\* The machine's configuration fields after a configuration call.
SetMachine(sm) ==
  /\ stateConfigurationMap' = sm.stateConfigurationMap
  /\ defaultState' = sm.defaultState
  /\ initialState' = sm.initialState
  /\ invalidTriggerListener' = sm.invalidTriggerListener
  /\ transitionListener' = sm.transitionListener

\* The engine's fields, which configuration calls leave alone.
engineVars == <<currentState, context, isProcessingList, queueVars, loops, startPc,
                startFailure, loopFailure, obsVars>>

\* sm.state(owner).on(trigger, guard) or sm.default().on(trigger, guard): the
\* configuring code keeps the TriggerConfiguration it returns; when on() throws,
\* the message names the trigger and the state of the configuration.
BuildOn(owner, trigger, guard) ==
  LET sm1 == Owner(Machine, owner)
      r == on(ConfigOf(sm1, owner), trigger, guard)
  IN /\ built < MaxCalls
     /\ built' = built + 1
     /\ IF r.error # ""
        THEN /\ SetMachine(sm1)
             /\ UNCHANGED handle
             /\ lastCall' = BuilderCall(OnNothing(owner, trigger, guard), r.error,
                                        trigger, ConfigOf(sm1, owner).state)
        ELSE /\ SetMachine(WithConfig(sm1, owner, r.sc))
             /\ handle' = Handle(owner, trigger, r.idx)
             /\ lastCall' = BuilderCall(OnNothing(owner, trigger, guard), "",
                                        Undefined, Undefined)
     /\ UNCHANGED engineVars

\* goesTo, execute or ignore called on the TriggerConfiguration the configuring
\* code holds.
BuildEffect(effect, target) ==
  LET r == ApplyEffect(Machine, handle.owner, handle.trigger, handle.idx, effect, target)
  IN /\ built < MaxCalls
     /\ handle # NoHandle
     /\ built' = built + 1
     /\ SetMachine(r.sm)
     /\ lastCall' = BuilderCall([op |-> effect, owner |-> handle.owner,
                                 trigger |-> handle.trigger, guard |-> NoGuard,
                                 effect |-> effect, target |-> target],
                                r.error, Undefined, Undefined)
     /\ UNCHANGED <<handle, engineVars>>

\* triggerConfiguration.goesTo(target)
BuildGoesTo(target) == BuildEffect("goesTo", target)

\* triggerConfiguration.execute(func)
BuildExecute == BuildEffect("execute", Undefined)

\* triggerConfiguration.ignore()
BuildIgnore == BuildEffect("ignore", Undefined)

\* A machine right after its constructor, before any configuration call.
BuilderInit ==
  /\ stateConfigurationMap = NewStateMachine.stateConfigurationMap
  /\ defaultState = NewStateMachine.defaultState
  /\ initialState = NewStateMachine.initialState
  /\ invalidTriggerListener = NewStateMachine.invalidTriggerListener
  /\ transitionListener = NewStateMachine.transitionListener
  /\ currentState = Undefined
  /\ context = [state |-> Undefined, guard |-> FALSE]
  /\ isProcessingList = FALSE
  /\ triggerList = <<>>
  /\ loops = <<>>
  /\ startPc = "notStarted"
  /\ startFailure = NoError
  /\ loopFailure = NoFailure
  /\ fired = 0
  /\ shifted = 0
  /\ lastShifted = 0
  /\ startCalls = <<>>
  /\ lastHandlerCall = NoHandlerCall
  /\ handle = NoHandle
  /\ lastCall = NoCall
  /\ built = 0

BuilderNext ==
  \/ \E owner \in BuildOwners, trigger \in BuildTriggers, guard \in BuildGuards :
       BuildOn(owner, trigger, guard)
  \/ \E target \in BuildTargets : BuildGoesTo(target)
  \/ BuildExecute
  \/ BuildIgnore

BuilderSpec == BuilderInit /\ [][BuilderNext]_vars

\* Every StateConfiguration the machine holds, the default configuration
\* included.
AllConfigurations ==
  {stateConfigurationMap[s] : s \in {x \in StateIds : stateConfigurationMap[x].exists}}
    \cup (IF defaultState.exists THEN {defaultState} ELSE {})

\* Every TriggerConfiguration of a StateConfiguration.
TriggerConfigurationsOf(sc) ==
  UNION {{sc.unguardedTriggerConfigurations[t][k] :
            k \in DOMAIN sc.unguardedTriggerConfigurations[t]}
         \cup {sc.guardedTriggerConfigurations[t][k] :
                 k \in DOMAIN sc.guardedTriggerConfigurations[t]} : t \in Triggers}

\* A on() call is made in this step, with or without a guard.
OnCall == built' = built + 1 /\ lastCall'.call.op = "on"

\* The configuration the on() call of this step addresses, as it is before the
\* call.
OnOwnerBefore == ConfigOf(Owner(Machine, lastCall'.call.owner), lastCall'.call.owner)

\* C24: in every State Configuration, the default configuration included, and
\* for every trigger, at most one of the unguarded map and the guarded list
\* holds an entry: on(trigger) fails when guarded entries for the trigger exist
\* and on(trigger, guard) fails when an unguarded entry exists, whichever was
\* registered first, with an error naming the state and the trigger, and the
\* failed call registers nothing.
C24_GuardedUnguardedExclusive ==
  /\ [](\A sc \in AllConfigurations : \A t \in Triggers :
          ~(/\ sc.unguardedTriggerConfigurations[t] # <<>>
            /\ sc.guardedTriggerConfigurations[t] # <<>>))
  /\ [][OnCall =>
          LET c == lastCall'.call
              conflict ==
                IF c.guard = NoGuard
                THEN OnOwnerBefore.guardedTriggerConfigurations[c.trigger] # <<>>
                ELSE OnOwnerBefore.unguardedTriggerConfigurations[c.trigger] # <<>>
          IN IF conflict
             THEN /\ lastCall'.error # ""
                  /\ lastCall'.errorTrigger = c.trigger
                  /\ lastCall'.errorState = OnOwnerBefore.state
                  /\ UNCHANGED <<confVars, handle>>
             ELSE lastCall'.error = ""]_vars

\* C24 witness: on(Success) was just rejected on the default configuration,
\* which holds a guarded entry for Success.
C24_Witness ==
  /\ lastCall.call.op = "on"
  /\ lastCall.call.owner = DefaultOwner
  /\ lastCall.call.guard = NoGuard
  /\ lastCall.error # ""
  /\ defaultState.guardedTriggerConfigurations[lastCall.call.trigger] # <<>>

\* The effect kinds a TriggerConfiguration holds.
EffectKinds(tc) ==
  (IF tc.targetStateConfiguration # Undefined THEN {"goesTo"} ELSE {})
    \cup (IF tc.func THEN {"execute"} ELSE {})
    \cup (IF tc.isIgnored THEN {"ignore"} ELSE {})

\* A goesTo, execute or ignore call is made in this step.
EffectCall ==
  built' = built + 1 /\ lastCall'.call.op \in {"goesTo", "execute", "ignore"}

\* The TriggerConfiguration the configuring code holds, as it is before the
\* call of this step.
HeldBefore ==
  TriggerConfigAt(ConfigOf(Machine, handle.owner), handle.trigger, handle.idx)

\* C26: in every configuration the builder can produce, a Trigger Configuration
\* holds at most one of a target state, an action and the ignore mark: a goesTo,
\* execute or ignore call that would add a second, different effect kind is
\* rejected with an error, whichever of the two kinds was configured first, and
\* changes nothing.
C26_AtMostOneEffectKind ==
  /\ [](\A sc \in AllConfigurations : \A tc \in TriggerConfigurationsOf(sc) :
          Cardinality(EffectKinds(tc)) <= 1)
  /\ [][(EffectCall /\ EffectKinds(HeldBefore) \ {lastCall'.call.op} # {}) =>
          /\ lastCall'.error # ""
          /\ UNCHANGED <<confVars, handle>>]_vars

\* C26 witness: ignore() was just rejected on a Trigger Configuration of the
\* default configuration that holds an action.
C26_Witness ==
  /\ lastCall.call.op = "ignore"
  /\ lastCall.error = "A trigger cannot both be ignored and have code that should be executed"
  /\ handle.owner = DefaultOwner
  /\ handle # NoHandle
  /\ TriggerConfigAt(defaultState, handle.trigger, handle.idx).func

ConflictMessage(a, b) ==
  CASE {a, b} = {"goesTo", "execute"} ->
         "A trigger cannot both have a target state and code that should be executed"
    [] {a, b} = {"goesTo", "ignore"} ->
         IF a = "goesTo" THEN "A trigger cannot both be ignored and have a target state"
         ELSE "A trigger cannot both have a target state and be ignored"
    [] {a, b} = {"execute", "ignore"} ->
         "A trigger cannot both be ignored and have code that should be executed"
    [] OTHER -> ""

C27_ContextStateIsCurrent ==
  /\ []((startPc = "done" /\ Quiescent /\ triggerList = <<>>) =>
          context.state = currentState)
  /\ [][(currentState' # currentState \/ context'.state # context.state) =>
          /\ currentState' = context'.state
          /\ StartCall \/ \E i \in DOMAIN loops : loops[i].pc = "listener"]_vars

\* C28: resuming is equivalent to continuing. The engine's steps depend only on
\* its configuration, its current state, the context, the queue and the
\* active-loop flag, so a fresh engine started on the context a run left at a
\* quiescent point behaves as that run goes on exactly when start() puts it in
\* the state the run was parked in: the recorded state current, the context as
\* it was, the queue empty, the flag clear and no callback invoked.
C28_ResumeEqualsContinue ==
  [][(/\ StartCall
      /\ context.state # Undefined
      /\ stateConfigurationMap[context.state].handler) =>
       /\ startPc' = "done"
       /\ currentState' = context.state
       /\ context' = context
       /\ startCalls' = <<>>
       /\ lastHandlerCall' = lastHandlerCall
       /\ isProcessingList' = isProcessingList
       /\ triggerList' = triggerList]_vars

\* A handler callback, entering() or exiting(), is invoked in this step.
HandlerCallStep == lastHandlerCall'.n = lastHandlerCall.n + 1

\* C29: in a run that starts on a fresh context and in which no callback
\* fails, the handler callbacks are entry(s0), exit(s0), entry(s1), exit(s1),
\* entry(s2), ...: the first callback is the entry callback of the initial
\* state, every exit callback is that of the state entered most recently and
\* directly follows its entry callback, and every later entry callback directly
\* follows the exit callback of the state the machine leaves; the log never
\* holds more than one entry callback per state entered.
C29_HandlerCallbacksAlternate ==
  [][(HandlerCallStep /\ NoCallbackFailed) =>
       IF lastHandlerCall'.cb = "exiting"
       THEN /\ lastHandlerCall.cb = "entering"
            /\ lastHandlerCall.state = lastHandlerCall'.state
            /\ lastHandlerCall'.state = currentState
       ELSE /\ lastHandlerCall'.cb = "entering"
            /\ lastHandlerCall'.state = currentState'
            /\ IF lastHandlerCall.n = 0
               THEN lastHandlerCall'.state = initialState
               ELSE /\ lastHandlerCall.cb = "exiting"
                    /\ lastHandlerCall.state = currentState]_vars

\* C29 witness: the flow machine has gone through State1, State2 and State3 and
\* its fifth handler callback, the entry callback of State3, is executing.
C29_Witness ==
  /\ stateConfigurationMap["State2"].unguardedTriggerConfigurations["Failure"] # <<>>
  /\ lastHandlerCall = HandlerCall("entering", "State3", 5)
  /\ currentState = "State3"
  /\ \E i \in DOMAIN loops : loops[i].pc = "entering" /\ loops[i].exitingState = "State2"

\* C30: no trigger is silently swallowed. Every trigger a call chain takes from
\* the queue, fired before or after start(), is kept in hand to carry out its
\* configured effect (an ignore() configuration counting as carried out) or to
\* invoke the invalid-trigger listener, or an error is raised to the caller of
\* the call chain.
C30_NoTriggerSwallowed ==
  [][\A i \in DOMAIN loops :
       ShiftStep(i) =>
         \/ i \in DOMAIN loops' /\ InHand(loops'[i]) /\ loops'[i].id = lastShifted'
         \/ loopFailure' # loopFailure /\ loopFailure'.id = lastShifted']_vars

\* StateMachine.getValidTriggers(): the array the current state's configuration
\* returns, the empty array when there is no current state.
getValidTriggers ==
  IF currentState = Undefined THEN <<>>
  ELSE scGetValidTriggers(stateConfigurationMap[currentState])

\* The elements of an array.
Elements(array) == {array[k] : k \in DOMAIN array}

\* C31: getValidTriggers() returns exactly the triggers that have an unguarded
\* or a guarded configuration on the current state, each once and whatever the
\* guards evaluate to; a trigger configured only on the default configuration
\* is never in it, and it is empty before start().
C31_ValidTriggersOfCurrentState ==
  /\ Len(getValidTriggers) = Cardinality(Elements(getValidTriggers))
  /\ currentState # Undefined =>
       Elements(getValidTriggers) =
         {t \in Triggers :
            \/ stateConfigurationMap[currentState].unguardedTriggerConfigurations[t] # <<>>
            \/ stateConfigurationMap[currentState].guardedTriggerConfigurations[t] # <<>>}
  /\ startPc = "notStarted" => getValidTriggers = <<>>

\* C31 witness: State2 is current with both guards of Success false; the
\* default configuration also registers Success and Reset.
C31_Witness ==
  /\ currentState = "State2"
  /\ ~context.guard
  /\ defaultState.exists
  /\ Elements(getValidTriggers) = {"Success", "Reset"}
  /\ stateConfigurationMap["State2"].guardedTriggerConfigurations["Success"] # <<>>
  /\ defaultState.unguardedTriggerConfigurations["Reset"] # <<>>

\* ------------------------------------------------------------------------
\* Fallback to the default configuration
\* ------------------------------------------------------------------------
\* A machine whose initial state registers Reset, Success and Failure with a
\* guard only, while the default configuration registers Reset without a guard
\* and Success with two guards, and was given a handler.
FallbackProgram ==
  << Handled(DefaultOwner),
     Initial("State1"), Handled("State1"),
     OnGoesTo("State1", "Reset", "guard", "State2"),
     OnExecute("State1", "Success", "guard"),
     OnIgnore("State1", "Failure", "guard"),
     Handled("State2"), Handled("State3"),
     OnGoesTo(DefaultOwner, "Reset", NoGuard, "State3"),
     OnGoesTo(DefaultOwner, "Success", "guard", "State2"),
     OnGoesTo(DefaultOwner, "Success", "notGuard", "State3"),
     OnExecute(DefaultOwner, "Success", "notGuard") >>

\* A machine constructed by the fallback program on a fresh context.
FallbackInit ==
  /\ \E prog \in {FallbackProgram}, il \in BOOLEAN, tl \in BOOLEAN :
       LET sm0 == Configure(NewStateMachine, prog).sm
           sm1 == IF il THEN withInvalidTriggerListener(sm0) ELSE sm0
           sm == IF tl THEN withTransitionListener(sm1) ELSE sm1
       IN /\ stateConfigurationMap = sm.stateConfigurationMap
          /\ defaultState = sm.defaultState
          /\ initialState = sm.initialState
          /\ invalidTriggerListener = sm.invalidTriggerListener
          /\ transitionListener = sm.transitionListener
  /\ currentState = Undefined
  /\ context \in [state : {Undefined}, guard : BOOLEAN]
  /\ isProcessingList = FALSE
  /\ triggerList = <<>>
  /\ loops = <<>>
  /\ startPc = "notStarted"
  /\ startFailure = NoError
  /\ loopFailure = NoFailure
  /\ fired = 0
  /\ shifted = 0
  /\ lastShifted = 0
  /\ startCalls = <<>>
  /\ lastHandlerCall = NoHandlerCall
  /\ handle = NoHandle
  /\ lastCall = NoCall
  /\ built = 0

FallbackSpec == FallbackInit /\ [][Next]_vars

\* The guarded configurations of the default configuration for trigger t, and
\* the positions of those whose guard is true on the context.
DefaultGuarded(t) ==
  IF defaultState.exists THEN defaultState.guardedTriggerConfigurations[t] ELSE <<>>
DefaultTrueGuards(t) ==
  {k \in DOMAIN DefaultGuarded(t) : EvalGuard(DefaultGuarded(t)[k].guard, context)}
DefaultUnguarded(t) ==
  IF defaultState.exists THEN defaultState.unguardedTriggerConfigurations[t] ELSE <<>>

\* C32: when the current state has only guarded configurations for the dequeued
\* trigger and all of their guards are false on the context, the trigger is
\* resolved against the default configuration, its unguarded entry first, then
\* its guards in registration order, and it is declared unresolved (error or
\* invalid-trigger listener) only when the default configuration has no
\* applicable entry either.
C32_FalseGuardsFallBackToDefault ==
  [][\A i \in DOMAIN loops :
       LET t == Head(triggerList).trigger
       IN (/\ ShiftStep(i)
           /\ currentState # Undefined
           /\ stateConfigurationMap[currentState].unguardedTriggerConfigurations[t] = <<>>
           /\ OwnGuarded(t) # <<>>
           /\ TrueGuards(t) = {}) =>
            IF DefaultUnguarded(t) # <<>>
            THEN /\ i \in DOMAIN loops'
                 /\ loops'[i].res.found
                 /\ loops'[i].res.owner = DefaultOwner
                 /\ loops'[i].res.idx = 0
                 /\ loops'[i].res.tc = DefaultUnguarded(t)[1]
                 /\ loops'[i].res.ownGuards = Len(OwnGuarded(t))
                 /\ loops'[i].res.defaultGuards = 0
                 /\ Applied(loops'[i])
            ELSE IF DefaultTrueGuards(t) # {}
            THEN /\ i \in DOMAIN loops'
                 /\ loops'[i].res.found
                 /\ loops'[i].res.owner = DefaultOwner
                 /\ loops'[i].res.idx \in DefaultTrueGuards(t)
                 /\ \A j \in DefaultTrueGuards(t) : loops'[i].res.idx <= j
                 /\ loops'[i].res.tc = DefaultGuarded(t)[loops'[i].res.idx]
                 /\ loops'[i].res.ownGuards = Len(OwnGuarded(t))
                 /\ loops'[i].res.defaultGuards = loops'[i].res.idx
                 /\ Applied(loops'[i])
            ELSE IF invalidTriggerListener
            THEN /\ i \in DOMAIN loops'
                 /\ loops'[i].pc = "invalid"
                 /\ ~loops'[i].res.found
                 /\ loops'[i].res.defaultConsulted
                 /\ loops'[i].res.defaultGuards = Len(DefaultGuarded(t))
            ELSE /\ i \notin DOMAIN loops'
                 /\ loopFailure'.error = InvalidTriggerError(t, currentState)
                 /\ loopFailure'.id = lastShifted']_vars

\* C32 witness: State1 registers Success with one guard, which is false; the
\* second guarded configuration of the default configuration, the first whose
\* guard is true, is being carried out.
C32_Witness ==
  \E i \in DOMAIN loops :
    /\ loops[i].pc = "exiting"
    /\ loops[i].trigger = "Success"
    /\ loops[i].stateAtDequeue = "State1"
    /\ stateConfigurationMap["State1"].guardedTriggerConfigurations["Success"] # <<>>
    /\ ~context.guard
    /\ loops[i].res.owner = DefaultOwner
    /\ loops[i].res.idx = 2
    /\ loops[i].enteringState = "State3"

\* C33: a transition resolved through the default configuration behaves like a
\* state's own transition: the exit callback invoked is that of the state that
\* was current when the trigger was dequeued, the transition listener receives
\* that state as source and the configured target as target, the target becomes
\* current, and the default pseudo-state never becomes the current state or
\* context.state nor has a handler callback invoked.
C33_DefaultTransitionLikeOwn ==
  /\ currentState # DefaultOwner
  /\ context.state # DefaultOwner
  /\ lastHandlerCall.state # DefaultOwner
  /\ \A i \in DOMAIN loops :
       LET l == loops[i]
           all == ExpectedCalls(l)
       IN (/\ l.res.found
           /\ l.res.owner = DefaultOwner
           /\ l.pc \in {"exiting", "listener", "entering"}) =>
            /\ l.exitingState = l.stateAtDequeue
            /\ l.exitingState \in StateIds
            /\ l.enteringState = l.res.tc.targetStateConfiguration
            /\ l.calls = SubSeq(all, 1, Len(l.calls))
            /\ l.pc = "exiting" =>
                 /\ currentState = l.stateAtDequeue
                 /\ l.cb = stateConfigurationMap[l.stateAtDequeue].handler
                 /\ Len(l.calls) = (IF l.cb THEN 1 ELSE 0)
            /\ l.pc = "listener" =>
                 /\ currentState = l.stateAtDequeue
                 /\ l.calls = SubSeq(all, 1, Len(all) - 1)
            /\ l.pc = "entering" =>
                 /\ l.calls = all
                 /\ currentState = l.enteringState

\* C33 witness: a transition of the default configuration, which has a handler
\* of its own, has invoked exiting() of State1, the transition listener and
\* entering() of its target.
C33_Witness ==
  \E i \in DOMAIN loops :
    /\ loops[i].pc = "entering"
    /\ loops[i].res.owner = DefaultOwner
    /\ defaultState.handler
    /\ loops[i].stateAtDequeue = "State1"
    /\ Len(loops[i].calls) = 3
    /\ loops[i].calls[1] = Call("exiting", Undefined, "State1", Undefined)
    /\ loops[i].calls[2].source = "State1"

\* The callbacks of a kind among the invocations of a call chain.
CallsOf(l, cb) == {k \in DOMAIN l.calls : l.calls[k].cb = cb}

\* C34: if the exit callback of the source state fails during a transition, the
\* current state and context.state remain the source state and neither the
\* transition listener nor the entry callback of the target is invoked; if the
\* transition listener fails, the state likewise remains the source state and
\* the entry callback of the target is not invoked. In both cases the call
\* chain ends with the failure.
C34_FailedExitKeepsSource ==
  /\ [][\A i \in DOMAIN loops :
          (FailsIn(i) /\ loops[i].pc \in {"exiting", "listener"}) =>
            /\ loopFailure'.error = CallbackError(loops[i].pc)
            /\ currentState' = loops[i].exitingState
            /\ context'.state = loops[i].exitingState
            /\ loops[i].exitingState = loops[i].stateAtDequeue
            /\ loops' = RemoveAt(loops, i)
            /\ lastHandlerCall' = lastHandlerCall
            /\ CallsOf(loops[i], "entering") = {}
            /\ loops[i].pc = "exiting" => CallsOf(loops[i], "listener") = {}]_vars
  /\ [](loopFailure.error = CallbackError("exiting") =>
          /\ lastHandlerCall.cb = "exiting"
          /\ lastHandlerCall.state = currentState
          /\ context.state = currentState)

\* C34 witness: the exit callback of State2 has failed on the way to another
\* state; State2 is still the current state and context.state.
C34_Witness ==
  /\ loopFailure.error = CallbackError("exiting")
  /\ loops = <<>>
  /\ currentState = "State2"
  /\ context.state = "State2"
  /\ lastHandlerCall.cb = "exiting"
  /\ lastHandlerCall.state = "State2"

\* C35: a queued trigger is resolved against the state that is current when it
\* is dequeued, not the state that was current when trigger() was called: the
\* resolution a call chain holds is that of the trigger at the head of the
\* queue against the current state's configuration and then the default
\* configuration, on the context as it is at that moment, also for a trigger
\* that was fired in another state, from a callback of a transition or behind
\* a trigger that caused one.
C35_ResolvedAgainstStateAtDequeue ==
  [][\A i \in DOMAIN loops :
       (ShiftStep(i) /\ i \in DOMAIN loops' /\ InHand(loops'[i])) =>
         LET e == Head(triggerList)
             l == loops'[i]
         IN /\ l.trigger = e.trigger
            /\ l.firedIn = e.firedIn
            /\ l.stateAtDequeue = currentState
            /\ l.res = resolveTrigger(currentState, e.trigger, context)
            /\ l.res.found => l.res.owner \in {currentState, DefaultOwner}
            /\ (l.res.found /\ l.res.owner = currentState) =>
                 l.res.tc = TriggerConfigAt(stateConfigurationMap[currentState],
                                            e.trigger, l.res.idx)]_vars

\* C35 witness: Success was fired from a callback while State1 was current, was
\* dequeued after the transition to State2 and is carried out as State2
\* configures it.
C35_Witness ==
  \E i \in DOMAIN loops :
    /\ loops[i].pc \in AwaitPcs
    /\ loops[i].src = "callback"
    /\ loops[i].trigger = "Success"
    /\ loops[i].firedIn = "State1"
    /\ loops[i].stateAtDequeue = "State2"
    /\ loops[i].res.found
    /\ loops[i].res.owner = "State2"
    /\ startPc = "done"

\* C36: a trigger is processed whatever the value of its identifier: a call
\* chain that takes a trigger from the queue while a state is current keeps the
\* active-loop flag set and either holds that trigger, resolved or reported
\* as invalid, or has processed it within the step; the chain never ends on
\* a dequeued trigger, so nothing stays queued behind it.
C36_AnyIdentifierProcessed ==
  [][\A i \in DOMAIN loops :
       (ShiftStep(i) /\ triggerList # <<>> /\ currentState # Undefined) =>
         /\ isProcessingList'
         /\ \/ loopFailure' # loopFailure
            \/ /\ i \in DOMAIN loops'
               /\ loops'[i].lid = loops[i].lid
               /\ InHand(loops'[i]) => loops'[i].trigger = Head(triggerList).trigger]_vars

\* C37: a trigger() call made while the active-loop flag is set only enqueues
\* its trigger and returns without failure; when a call chain is rejected, for
\* an unresolved trigger or a failed callback, the rejection goes to the caller
\* of the trigger() call that started the chain, whichever call fired the
\* trigger in hand; and a chain started from inside a callback with the flag
\* clear is started from the entry callback that start() awaits.
C37_FailureGoesToLoopOwner ==
  /\ [][(TriggerCall /\ isProcessingList) =>
          /\ loops' = loops
          /\ loopFailure' = loopFailure
          /\ startFailure' = startFailure
          /\ triggerList' = Append(triggerList, FiredEntry)]_vars
  /\ [][\A i \in DOMAIN loops :
          (loopFailure' # loopFailure /\ loops' = RemoveAt(loops, i)) =>
            /\ loopFailure'.owner = loops[i].owner
            /\ loopFailure'.lid = loops[i].lid
            /\ loopFailure'.id = lastShifted'
            /\ loopFailure'.lid <= loopFailure'.id
            /\ startFailure' = startFailure]_vars
  /\ [][(TriggerCall /\ ~isProcessingList /\ FiredEntry.src = "callback") =>
          (startPc = "entering" /\ loops'[Len(loops')].owner = "callback")]_vars

\* C37 witness: an external trigger() call started the chain, a callback fired
\* a later trigger during it, that trigger is not valid and the rejection has
\* gone to the external caller.
C37_Witness ==
  /\ loopFailure.error.kind = "TriggerNotValid"
  /\ loopFailure.owner = "external"
  /\ loopFailure.lid < loopFailure.id
  /\ startPc = "done"

\* C38: once start() has completed successfully the current state is a state
\* of the configuration model that has a State Configuration, whatever
\* triggers are processed and whatever fails: getCurrentState() does not
\* return undefined again.
C38_CurrentStateStaysDefined ==
  startPc = "done" =>
    /\ currentState # Undefined
    /\ currentState \in StateIds
    /\ stateConfigurationMap[currentState] # NoStateConfiguration

\* C39: a start() call that fails with a configuration error (no initial
\* state, no State Configuration for the state, no handler for the state)
\* leaves the engine not started: there is still no current state,
\* context.state is what it was before the call and the active-loop flag is
\* clear.
C39_FailedStartLeavesNotStarted ==
  [][(/\ StartCall
      /\ startPc' = "failed"
      /\ startFailure' \in {NoInitialStateError, NotConfiguredError(ResolvedState),
                            NoHandlerError(ResolvedState)}) =>
       /\ currentState' = Undefined
       /\ context'.state = context.state
       /\ ~isProcessingList']_vars

====
